---------------------------- MODULE Spec2Model ----------------------------
(***************************************************************************)
(* Model of the command engine of SqMod (CmdManager / CmdListener):        *)
(* registry, dispatcher (Run / Exec), tokenizer (Parse) and the argument   *)
(* specification compiler (ProcSpec).                                      *)
(*                                                                         *)
(* Text is a sequence of one-character strings.  A C string read past its  *)
(* last character yields NUL.  Argument flag sets (Uint8 bit masks in the  *)
(* code) are sets of flag names: `a | b' is union, `a & b' is              *)
(* intersection and a mask is non-zero iff the set is non-empty.           *)
(***************************************************************************)
EXTENDS Integers, Sequences, FiniteSets, TLC

(***************************************************************************)
(* Bounds of the model.                                                    *)
(***************************************************************************)
\* longest argument text of the exhaustive tokenizer inputs
MaxLen == 3

(***************************************************************************)
(* Program constants.                                                      *)
(***************************************************************************)
SQMOD_MAX_CMD_ARGS == 14
\* initial capacity of the context's scratch buffer
BufferInit == 512

CMDARG_ANY == {}
CMDARG_INTEGER == {"integer"}
CMDARG_FLOAT == {"float"}
CMDARG_BOOLEAN == {"boolean"}
CMDARG_STRING == {"string"}
CMDARG_LOWER == {"lower"}
CMDARG_UPPER == {"upper"}
CMDARG_GREEDY == {"greedy"}

CMDERR_EMPTY_COMMAND == "EmptyCommand"
CMDERR_INVALID_COMMAND == "InvalidCommand"
CMDERR_SYNTAX_ERROR == "SyntaxError"
CMDERR_UNKNOWN_COMMAND == "UnknownCommand"
CMDERR_MISSING_EXECUTER == "MissingExecuter"
CMDERR_INSUFFICIENT_AUTH == "InsufficientAuth"
CMDERR_INCOMPLETE_ARGS == "IncompleteArgs"
CMDERR_EXTRANEOUS_ARGS == "ExtraneousArgs"
CMDERR_UNSUPPORTED_ARG == "UnsupportedArg"
CMDERR_BUFFER_OVERFLOW == "BufferOverflow"
CMDERR_EXECUTION_FAILED == "ExecutionFailed"
CMDERR_EXECUTION_ABORTED == "ExecutionAborted"
CMDERR_POST_PROCESSING_FAILED == "PostProcessingFailed"
CMDERR_UNRESOLVED_FAILURE == "UnresolvedFailure"

(***************************************************************************)
(* Characters (<cctype>).                                                  *)
(***************************************************************************)
NUL == "NUL"
BSL == "\\"
DQ == "\""
SQ == "'"

LowerChars ==
    << "a", "b", "c", "d", "e", "f", "g", "h", "i", "j", "k", "l", "m",
       "n", "o", "p", "q", "r", "s", "t", "u", "v", "w", "x", "y", "z" >>
UpperChars ==
    << "A", "B", "C", "D", "E", "F", "G", "H", "I", "J", "K", "L", "M",
       "N", "O", "P", "Q", "R", "S", "T", "U", "V", "W", "X", "Y", "Z" >>
DigitChars == << "0", "1", "2", "3", "4", "5", "6", "7", "8", "9" >>

Range(f) == { f[i] : i \in DOMAIN f }
IndexOf(seq, c) == CHOOSE i \in DOMAIN seq : seq[i] = c

isspace(c) == c \in { " ", "\t", "\n", "\r", "\f" }
isdigit(c) == c \in Range(DigitChars)
isalpha(c) == c \in Range(LowerChars) \cup Range(UpperChars)
tolower(c) == IF c \in Range(UpperChars) THEN LowerChars[IndexOf(UpperChars, c)] ELSE c
toupper(c) == IF c \in Range(LowerChars) THEN UpperChars[IndexOf(LowerChars, c)] ELSE c
DigitVal(c) == IndexOf(DigitChars, c) - 1

\* the character of C string s at 1-based position i (NUL at and past the end)
At(s, i) == IF i >= 1 /\ i <= Len(s) THEN s[i] ELSE NUL
\* the C string that starts at position i of s
From(s, i) == IF i > Len(s) THEN << >> ELSE SubSeq(s, i, Len(s))
Take(s, n) == IF n <= 0 THEN << >> ELSE SubSeq(s, 1, IF n < Len(s) THEN n ELSE Len(s))
ToLowerStr(s) == [ i \in 1..Len(s) |-> tolower(s[i]) ]
ToUpperStr(s) == [ i \in 1..Len(s) |-> toupper(s[i]) ]
Max2(a, b) == IF a > b THEN a ELSE b

\* first position >= i of s whose character is white space (Len(s)+1 if none)
RECURSIVE FindSpace(_, _)
FindSpace(s, i) ==
    IF i > Len(s) \/ isspace(s[i]) THEN i ELSE FindSpace(s, i + 1)

\* first position >= i of s whose character is not white space (Len(s)+1 if none)
RECURSIVE FindNotSpace(_, _)
FindNotSpace(s, i) ==
    IF i > Len(s) \/ ~isspace(s[i]) THEN i ELSE FindNotSpace(s, i + 1)

\* first position >= i of s whose character is not a decimal digit
RECURSIVE ScanDigits(_, _)
ScanDigits(s, i) ==
    IF i <= Len(s) /\ isdigit(s[i]) THEN ScanDigits(s, i + 1) ELSE i

\* value of the decimal digits s[i..j-1], continuing the accumulator acc
RECURSIVE DigitsVal(_, _, _, _)
DigitsVal(s, i, j, acc) ==
    IF i >= j THEN acc ELSE DigitsVal(s, i + 1, j, acc * 10 + DigitVal(s[i]))

(***************************************************************************)
(* std::strtoll(str, &next, 10): skips white space, takes an optional sign *)
(* and the longest run of digits.  `next' is the number of characters      *)
(* consumed from str (0 when no digits were found).                        *)
(***************************************************************************)
strtollDigits(s, neg, b, c) ==
    IF c = b THEN [ value |-> 0, next |-> 0 ]
    ELSE [ value |-> IF neg THEN 0 - DigitsVal(s, b, c, 0) ELSE DigitsVal(s, b, c, 0),
           next |-> c - 1 ]

strtollSign(s, a) ==
    strtollDigits(s, At(s, a) = "-", IF At(s, a) \in { "+", "-" } THEN a + 1 ELSE a,
                  ScanDigits(s, IF At(s, a) \in { "+", "-" } THEN a + 1 ELSE a))

strtoll(s) == strtollSign(s, FindNotSpace(s, 1))

\* a decimal number mant * 10^exp without trailing zeros in mant
RECURSIVE NormDec(_, _)
NormDec(mant, exp) ==
    IF mant = 0 THEN [ mant |-> 0, exp |-> 0 ]
    ELSE IF mant % 10 = 0 THEN NormDec(mant \div 10, exp + 1)
    ELSE [ mant |-> mant, exp |-> exp ]

(***************************************************************************)
(* std::strtof / std::strtod(str, &next): white space, optional sign,      *)
(* digits with an optional fraction (at least one digit in all), optional  *)
(* exponent.  The value is kept as the decimal number the text denotes;    *)
(* binary rounding, and the hexadecimal, infinity and NaN forms, are not   *)
(* modelled (no input of the model begins with 0x, inf or nan).            *)
(***************************************************************************)
\* the value and the end, given the digit run b..c-1, the end d of the
\* fraction, and the exponent digits es..ee-1 (used when there is an `e'
\* and at least one exponent digit)
strtodValue(s, neg, b, c, d, es, ee) ==
    LET nFrac == IF d > c THEN d - (c + 1) ELSE 0
        useE == At(s, d) \in { "e", "E" } /\ ee > es
        ev == IF useE THEN DigitsVal(s, es, ee, 0) ELSE 0
        n == NormDec(DigitsVal(s, c + 1, d, DigitsVal(s, b, c, 0)),
                     (IF At(s, d + 1) = "-" THEN 0 - ev ELSE ev) - nFrac)
    IN  IF (c - b) + nFrac = 0 THEN [ mant |-> 0, exp |-> 0, next |-> 0 ]
        ELSE [ mant |-> IF neg THEN 0 - n.mant ELSE n.mant, exp |-> n.exp,
               next |-> (IF useE THEN ee ELSE d) - 1 ]

strtodExponent(s, neg, b, c, d, es) == strtodValue(s, neg, b, c, d, es, ScanDigits(s, es))

strtodFraction(s, neg, b, c, d) ==
    strtodExponent(s, neg, b, c, d, IF At(s, d + 1) \in { "+", "-" } THEN d + 2 ELSE d + 1)

strtodDigits(s, neg, b, c) ==
    strtodFraction(s, neg, b, c, IF At(s, c) = "." THEN ScanDigits(s, c + 1) ELSE c)

strtodSign(s, a) ==
    strtodDigits(s, At(s, a) = "-", IF At(s, a) \in { "+", "-" } THEN a + 1 ELSE a,
                 ScanDigits(s, IF At(s, a) \in { "+", "-" } THEN a + 1 ELSE a))

strtod(s) == strtodSign(s, FindNotSpace(s, 1))


(***************************************************************************)
(* CmdListener::ProcSpec: the argument specification compiler.             *)
(***************************************************************************)
AnySpec == [ n \in 0..(SQMOD_MAX_CMD_ARGS - 1) |-> CMDARG_ANY ]

SpecLetters == { "g", "i", "f", "b", "s", "l", "u" }

ApplySpecifier_KeepGreedy(flags, c) ==
    CASE c = "g" -> flags \cup CMDARG_GREEDY
      [] c = "i" -> flags \cup CMDARG_INTEGER
      [] c = "f" -> flags \cup CMDARG_FLOAT
      [] c = "b" -> flags \cup CMDARG_BOOLEAN
      [] c = "s" -> flags \cup CMDARG_STRING
      [] c = "l" -> flags \cup CMDARG_STRING \cup CMDARG_LOWER
      [] c = "u" -> flags \cup CMDARG_STRING \cup CMDARG_UPPER

\* the switch over one type letter applied to the flags of a position
ApplySpecifier(flags, c) ==
    CASE c = "g" -> CMDARG_GREEDY
      [] c = "i" -> (flags \cup CMDARG_INTEGER) \ CMDARG_GREEDY
      [] c = "f" -> (flags \cup CMDARG_FLOAT) \ CMDARG_GREEDY
      [] c = "b" -> (flags \cup CMDARG_BOOLEAN) \ CMDARG_GREEDY
      [] c = "s" -> (flags \cup CMDARG_STRING) \ CMDARG_GREEDY
      [] c = "l" -> (flags \cup CMDARG_STRING \cup CMDARG_LOWER) \ CMDARG_GREEDY
      [] c = "u" -> (flags \cup CMDARG_STRING \cup CMDARG_UPPER) \ CMDARG_GREEDY

\* first position >= i of s that holds NUL or an alphabetic character
RECURSIVE SkipNonAlpha(_, _)
SkipNonAlpha(s, i) ==
    IF At(s, i) # NUL /\ ~isalpha(At(s, i)) THEN SkipNonAlpha(s, i + 1) ELSE i

(***************************************************************************)
(* The loop of ProcSpec from position p of str with the current argument   *)
(* idx.  Status: "ok", "throw" (every position reset to any), "hang" (the  *)
(* loop makes no progress on a `,' it stands on) and "ub" (a read past the *)
(* memory given in str, or a write to m_ArgSpec[SQMOD_MAX_CMD_ARGS]; wrote *)
(* is then the position written, and -1 for the read).                     *)
(* str is the memory the loop reads: the string, and where the caller      *)
(* gives them its terminator and the characters that happen to follow it,  *)
(* which the loop goes on to read when the switch consumes the terminator. *)
(***************************************************************************)
ExtraneousSpecifiers == "Extraneous type specifiers: %d >= %d"
UnknownSpecifier == "Unknown type specifier (%c) at argument: %u"

RECURSIVE ProcSpecLoop(_, _, _, _)
ProcSpecLoop(str, p, idx, spec) ==
    IF At(str, p) = NUL THEN [ status |-> "ok", spec |-> spec ]
    ELSE IF str[p] = "|" THEN
        IF idx >= SQMOD_MAX_CMD_ARGS
        THEN [ status |-> "throw", spec |-> AnySpec, what |-> ExtraneousSpecifiers ]
        ELSE ProcSpecLoop(str, p + 1, idx + 1, spec)
    ELSE IF str[p] # "," THEN
        LET q == SkipNonAlpha(str, p)
            c == At(str, q)
        IN  IF c = NUL THEN
                IF q > Len(str) THEN [ status |-> "ub", spec |-> spec, wrote |-> -1 ]
                ELSE ProcSpecLoop(str, q + 1, idx, spec)
            ELSE IF c \notin SpecLetters
            THEN [ status |-> "throw", spec |-> AnySpec, what |-> UnknownSpecifier ]
            ELSE IF idx >= SQMOD_MAX_CMD_ARGS
            THEN [ status |-> "ub", spec |-> spec, wrote |-> idx ]
            ELSE ProcSpecLoop(str, q + 1, idx,
                              [ spec EXCEPT ![idx] = ApplySpecifier(spec[idx], c) ])
    ELSE [ status |-> "hang", spec |-> spec ]

ProcSpec(str) ==
    IF str = << >> THEN [ status |-> "ok", spec |-> AnySpec ]
    ELSE ProcSpecLoop(str, 1, 0, AnySpec)

\* ProcSpec of a string that memory holding `after' follows
ProcSpecMem(str, after) ==
    IF str = << >> THEN [ status |-> "ok", spec |-> AnySpec ]
    ELSE ProcSpecLoop(str \o << NUL >> \o after, 1, 0, AnySpec)

(***************************************************************************)
(* Script values (what sq_pushinteger, sq_pushfloat, sq_pushbool and       *)
(* sq_pushstring leave on the stack) and the (type flag, value) pairs of   *)
(* Context::mArgv.                                                         *)
(***************************************************************************)
IntObj(v) == [ type |-> "integer", i |-> v, e |-> 0, s |-> << >> ]
FloatObj(m, x) == [ type |-> "float", i |-> m, e |-> x, s |-> << >> ]
BoolObj(b) == [ type |-> "bool", i |-> IF b THEN 1 ELSE 0, e |-> 0, s |-> << >> ]
StrObj(str) == [ type |-> "string", i |-> 0, e |-> 0, s |-> str ]
Arg(flag, obj) == [ first |-> flag, second |-> obj ]

Has(flags, flag) == flags \cap flag # {}

\* CmdManager::SqError: one structured report (code and datum) to the error sink
SqError(errors, type, data) == Append(errors, [ type |-> type, data |-> data ])

\* Buffer::Adjust: the scratch buffer holds at least n characters afterwards
Adjust(cap, n) == Max2(cap, n)

(***************************************************************************)
(* CmdManager::Parse, the inner loop that consumes a quoted string.  itr   *)
(* is the position read next, elem the character read last, buf the        *)
(* characters replicated so far (str - begin = Len(buf)).                  *)
(***************************************************************************)
RECURSIVE ParseQuoted(_, _, _, _, _, _)
ParseQuoted(arg, itr, last, buf, close, cap) ==
    LET prev == last
        elem == At(arg, itr)
    IN  IF elem = NUL THEN
            [ good |-> FALSE, err |-> CMDERR_SYNTAX_ERROR, itr |-> itr, elem |-> elem, buf |-> buf ]
        ELSE IF elem = close /\ prev # BSL THEN
            [ good |-> TRUE, err |-> "", itr |-> itr, elem |-> elem, buf |-> buf ]
        ELSE IF elem = close THEN
            \* --str, then the quote overwrites the backslash
            ParseQuoted(arg, itr + 1, elem,
                        Append(Take(buf, Len(buf) - 1), elem), close, cap)
        ELSE IF Len(buf) >= cap - 1 THEN
            [ good |-> FALSE, err |-> CMDERR_BUFFER_OVERFLOW, itr |-> itr, elem |-> elem, buf |-> buf ]
        ELSE ParseQuoted(arg, itr + 1, elem, Append(buf, elem), close, cap)

\* the script string made of a quoted argument of `buf' replicated characters
QuotedValue(flags, buf) ==
    LET str == IF Has(flags, CMDARG_LOWER) THEN ToLowerStr(buf)
               ELSE IF Has(flags, CMDARG_UPPER) THEN ToUpperStr(buf)
               ELSE buf
    IN  IF Len(buf) = 0 THEN StrObj(<< >>)
        ELSE StrObj(Take(str, Len(buf) - 1))

(***************************************************************************)
(* CmdManager::Parse, the type cascade over one unquoted run.  cstr is the *)
(* C string that starts at the run (it extends to the end of the argument  *)
(* text), sz the length of the run.  Yields the pairs appended to mArgv.   *)
(***************************************************************************)
\* the pair pushed when the conversion r consumed the whole run
IntegerPair(sz, r) ==
    IF r.next = sz THEN << Arg(CMDARG_INTEGER, IntObj(r.value)) >> ELSE << >>

IntegerPart(flags, cstr, sz) ==
    IF Has(flags, CMDARG_INTEGER) THEN IntegerPair(sz, strtoll(cstr)) ELSE << >>

FloatPair(sz, r) ==
    IF r.next = sz THEN << Arg(CMDARG_FLOAT, FloatObj(r.mant, r.exp)) >> ELSE << >>

FloatPart(flags, cstr, sz) ==
    IF Has(flags, CMDARG_FLOAT) THEN FloatPair(sz, strtod(cstr)) ELSE << >>

\* snprintf(lc, 6, "%.5s", str) followed by tolower of every character
BooleanText(cstr) == ToLowerStr(Take(cstr, 5))

\* the pair pushed when lc compares equal to one of the four words
BooleanPair(lc) ==
    IF lc = << "t", "r", "u", "e" >> \/ lc = << "o", "n" >>
    THEN << Arg(CMDARG_BOOLEAN, BoolObj(TRUE)) >>
    ELSE IF lc = << "f", "a", "l", "s", "e" >> \/ lc = << "o", "f", "f" >>
    THEN << Arg(CMDARG_BOOLEAN, BoolObj(FALSE)) >>
    ELSE << >>

BooleanPart(flags, cstr, sz) ==
    IF Has(flags, CMDARG_BOOLEAN) /\ sz <= 5 THEN BooleanPair(BooleanText(cstr)) ELSE << >>

StringPart(flags, cstr, sz) ==
    LET run == Take(cstr, sz)
    IN  IF Has(flags, CMDARG_LOWER) THEN << Arg(CMDARG_STRING, StrObj(ToLowerStr(run))) >>
        ELSE IF Has(flags, CMDARG_UPPER) THEN << Arg(CMDARG_STRING, StrObj(ToUpperStr(run))) >>
        ELSE << Arg(CMDARG_STRING, StrObj(run)) >>

\* `identified' is set by the boolean branch only: the integer and the float
\* branch both leave it false
ParseRunEnd(flags, cstr, sz, b) ==
    b \o (IF b # << >> THEN << >> ELSE StringPart(flags, cstr, sz))

ParseRun(flags, cstr, sz) ==
    IntegerPart(flags, cstr, sz) \o FloatPart(flags, cstr, sz)
    \o ParseRunEnd(flags, cstr, sz, BooleanPart(flags, cstr, sz))

(***************************************************************************)
(* CmdManager::Parse, the main loop.  st holds itr (position read next),   *)
(* elem (character read last), mArgc, mArgv, arg_flags, the index of the   *)
(* last read of m_ArgSpec and the errors reported.  m_ArgSpec and          *)
(* m_MaxArgc are those of the command instance.                            *)
(***************************************************************************)
\* the loop stops at the end of the text or once max_arg arguments were taken
ParseStop_Late(elem, mArgc, max_arg) == elem = NUL \/ mArgc > max_arg
ParseStop_NoLimit(elem, mArgc, max_arg) == elem = NUL
ParseStop(elem, mArgc, max_arg) == elem = NUL \/ mArgc >= max_arg

\* a read of m_ArgSpec[idx]; the array has SQMOD_MAX_CMD_ARGS elements (no
\* state reads past them, see C36: `any' stands for what lies there)
FlagsAt(m_ArgSpec, idx) == IF idx \in DOMAIN m_ArgSpec THEN m_ArgSpec[idx] ELSE CMDARG_ANY

ParseDone(st, good) ==
    [ good |-> good, mArgc |-> st.mArgc, mArgv |-> st.mArgv, errors |-> st.errors,
      read |-> st.read ]

RECURSIVE ParseLoop(_, _, _, _, _)
ParseLoop(m_ArgSpec, max_arg, mInvoker, arg, st) ==
    LET prev == st.elem
        elem == At(arg, st.itr)
        \* the end of one iteration: stop at the end of the text, else advance
        Step(n) == IF n.itr > Len(arg) THEN ParseDone(n, TRUE)
                   ELSE ParseLoop(m_ArgSpec, max_arg, mInvoker, arg,
                                  [ n EXCEPT !.itr = n.itr + 1 ])
    IN  IF ParseStop(elem, st.mArgc, max_arg) THEN ParseDone(st, TRUE)
        ELSE IF Has(st.arg_flags, CMDARG_GREEDY) THEN
            LET p == FindNotSpace(arg, st.itr)
            IN  ParseDone([ st EXCEPT !.mArgv = Append(@, Arg(CMDARG_STRING, StrObj(From(arg, p)))),
                                      !.mArgc = @ + 1,
                                      !.arg_flags = FlagsAt(m_ArgSpec, st.mArgc + 1),
                                      !.read = st.mArgc + 1 ], TRUE)
        ELSE IF elem \in { SQ, DQ } /\ prev # BSL THEN
            LET q == ParseQuoted(arg, st.itr + 1, elem, << >>, elem,
                                 Adjust(BufferInit, Len(arg)))
            IN  IF ~q.good
                THEN ParseDone([ st EXCEPT !.errors = SqError(@, q.err,
                                      IF q.err = CMDERR_SYNTAX_ERROR THEN st.mArgc ELSE mInvoker) ], FALSE)
                ELSE Step([ st EXCEPT
                            !.itr = q.itr, !.elem = q.elem,
                            !.mArgv = Append(@, Arg(CMDARG_STRING, QuotedValue(st.arg_flags, q.buf))),
                            !.mArgc = @ + 1,
                            !.arg_flags = FlagsAt(m_ArgSpec, st.mArgc + 1),
                            !.read = st.mArgc + 1 ])
        ELSE IF ~isspace(elem) /\ (isspace(prev) \/ prev = NUL) THEN
            LET pos == FindSpace(arg, st.itr)
            IN  Step([ st EXCEPT
                       !.itr = pos, !.elem = At(arg, pos),
                       !.mArgv = @ \o ParseRun(st.arg_flags, From(arg, st.itr), pos - st.itr),
                       !.mArgc = @ + 1,
                       !.arg_flags = FlagsAt(m_ArgSpec, st.mArgc + 1),
                            !.read = st.mArgc + 1 ])
        ELSE Step([ st EXCEPT !.elem = elem ])

Parse(m_ArgSpec, m_MaxArgc, mInvoker, mArgument) ==
    IF mArgument = << >>
    THEN [ good |-> TRUE, mArgc |-> 0, mArgv |-> << >>, errors |-> << >>, read |-> -1 ]
    ELSE ParseLoop(m_ArgSpec, m_MaxArgc, mInvoker, mArgument,
                   [ itr |-> 1, elem |-> NUL, mArgc |-> 0, mArgv |-> << >>,
                     arg_flags |-> FlagsAt(m_ArgSpec, 0), read |-> 0, errors |-> << >> ])

(***************************************************************************)
(* State.                                                                  *)
(*   listeners  the CmdListener instances ever created, by identity (1..)  *)
(*   m_Commands the registry of CmdManager: (mHash, mName, mPtr) entries   *)
(*   m_Context  the current context of CmdManager (0: none), a position of *)
(*              `stack'                                                    *)
(*   m_OnAuth   whether the process-wide authority inspector is bound      *)
(*   stack      the Run calls in progress, outermost first; each is inside *)
(*              its command's executer                                     *)
(*   ret        what the call that returned last handed to its caller      *)
(*              (None once the caller has taken it)                        *)
(***************************************************************************)
VARIABLES listeners, m_Commands, m_Context, m_OnAuth, stack, ret, s_Instances, routines

vars == << listeners, m_Commands, m_Context, m_OnAuth, stack, ret, s_Instances, routines >>

None == [ op |-> "none" ]

\* std::hash< String >: not injective; here the sum of the character codes
CharCode(c) ==
    IF c \in Range(LowerChars) THEN IndexOf(LowerChars, c)
    ELSE IF c \in Range(UpperChars) THEN Len(LowerChars) + IndexOf(UpperChars, c)
    ELSE IF c \in Range(DigitChars) THEN 2 * Len(LowerChars) + IndexOf(DigitChars, c)
    ELSE 0

RECURSIVE Hash(_)
Hash(name) == IF name = << >> THEN 0 ELSE CharCode(Head(name)) + Hash(Tail(name))

\* ValidateName: TRUE iff the name is accepted (not empty, no white space)
ValidateName(name) == name # << >> /\ \A i \in DOMAIN name : ~isspace(name[i])

(***************************************************************************)
(* CmdListener: construction and the setters Init goes through.  Each      *)
(* yields the listener afterwards and whether the call threw.              *)
(***************************************************************************)
\* the messages of the exceptions the registration interface throws
NoError == ""
InvalidName == "Invalid or empty command name"
NameHasSpaces == "Command names cannot contain spaces"
AlreadyExists == "Command '%s' already exists as '%s' for hash (%zu)"
AlreadyAttached == "Command is already attached"
OutOfRange == "Argument (%u) is out of total range (%u)"
MinExceedsMax == "Minimum argument (%u) exceeds maximum (%u)"

\* an exception: its message and the values formatted into it
Error(what) == [ what |-> what, name |-> << >>, as |-> << >>, hash |-> 0 ]

\* the message ValidateName throws for a name it does not accept
ValidateNameError(name) == IF name = << >> THEN InvalidName ELSE NameHasSpaces

SetMinArgC_Unchecked(l, val) ==
    IF val >= SQMOD_MAX_CMD_ARGS
    THEN [ threw |-> TRUE, l |-> l, what |-> OutOfRange ]
    ELSE [ threw |-> FALSE, l |-> [ l EXCEPT !.m_MinArgc = val ], what |-> NoError ]

SetMinArgC(l, val) ==
    IF val >= SQMOD_MAX_CMD_ARGS
    THEN [ threw |-> TRUE, l |-> l, what |-> OutOfRange ]
    ELSE IF val > l.m_MaxArgc
    THEN [ threw |-> TRUE, l |-> l, what |-> MinExceedsMax ]
    ELSE [ threw |-> FALSE, l |-> [ l EXCEPT !.m_MinArgc = val ], what |-> NoError ]

SetMaxArgC(l, val) ==
    IF val >= SQMOD_MAX_CMD_ARGS
    THEN [ threw |-> TRUE, l |-> l, what |-> OutOfRange ]
    ELSE IF val < l.m_MinArgc
    THEN [ threw |-> TRUE, l |-> l, what |-> MinExceedsMax ]
    ELSE [ threw |-> FALSE, l |-> [ l EXCEPT !.m_MaxArgc = val ], what |-> NoError ]

SetSpecDone_KeepFlags(l, spec, r) ==
    IF r.status = "ok"
    THEN [ threw |-> FALSE, l |-> [ l EXCEPT !.m_ArgSpec = r.spec, !.m_Spec = spec ],
           what |-> NoError ]
    ELSE [ threw |-> TRUE, l |-> l, what |-> r.what ]

\* SetSpec: ProcSpec first, the string is stored only when that did not throw
SetSpecDone(l, spec, r) ==
    IF r.status = "ok"
    THEN [ threw |-> FALSE, l |-> [ l EXCEPT !.m_ArgSpec = r.spec, !.m_Spec = spec ],
           what |-> NoError ]
    ELSE [ threw |-> TRUE, l |-> [ l EXCEPT !.m_ArgSpec = r.spec ], what |-> r.what ]

SetSpec(l, spec) == SetSpecDone(l, spec, ProcSpec(spec))

DefaultListener ==
    [ m_Name |-> << >>,
      m_ArgSpec |-> AnySpec,
      m_ArgTags |-> [ n \in 0..(SQMOD_MAX_CMD_ARGS - 1) |-> << >> ],
      m_MinArgc |-> 0,
      m_MaxArgc |-> SQMOD_MAX_CMD_ARGS - 1,
      m_Spec |-> << >>,
      m_Authority |-> -1,
      m_Protected |-> FALSE,
      m_Suspended |-> FALSE,
      m_Associate |-> FALSE,
      m_OnExec |-> FALSE,
      m_OnAuth |-> FALSE,
      m_OnPost |-> FALSE,
      m_OnFail |-> FALSE,
      \* the references scripts hold to the object, and whether the instance
      \* was destroyed (~CmdListener ran)
      handles |-> 1,
      released |-> FALSE ]

\* CmdListener::Init of a listener that is not attached yet (no tags given)
InitNamed(name, spec, b) ==
    IF b.threw THEN [ threw |-> TRUE, l |-> DefaultListener, what |-> b.what ]
    ELSE IF ~ValidateName(name)
    THEN [ threw |-> TRUE, l |-> DefaultListener, what |-> ValidateNameError(name) ]
    ELSE SetSpec([ b.l EXCEPT !.m_Name = name ], spec)

InitCounted(name, spec, max, a) ==
    IF a.threw THEN [ threw |-> TRUE, l |-> DefaultListener, what |-> a.what ]
    ELSE InitNamed(name, spec, SetMaxArgC(a.l, max))

ListenerInit(name, spec, min, max) ==
    InitCounted(name, spec, max, SetMinArgC(DefaultListener, min))

(***************************************************************************)
(* CmdManager: registry.                                                   *)
(***************************************************************************)
\* position in m_Commands of the first entry with the hash (0 if none)
FindHash(cmds, hash) ==
    IF \E i \in DOMAIN cmds : cmds[i].mHash = hash
    THEN CHOOSE i \in DOMAIN cmds :
            cmds[i].mHash = hash /\ \A j \in 1..(i - 1) : cmds[j].mHash # hash
    ELSE 0

\* FindByName: the listener of the entry found (0: the null object)
FindByName(cmds, name) ==
    LET i == FindHash(cmds, Hash(name))
    IN  IF i = 0 THEN 0 ELSE cmds[i].mPtr

\* CmdManager::Attached(ptr)
Attached(cmds, ptr) == \E i \in DOMAIN cmds : cmds[i].mPtr = ptr

\* CmdManager::Detach(ptr): the first entry of the listener is erased
Detach(cmds, ptr) ==
    IF Attached(cmds, ptr)
    THEN LET i == CHOOSE k \in DOMAIN cmds :
                     cmds[k].mPtr = ptr /\ \A j \in 1..(k - 1) : cmds[j].mPtr # ptr
         IN  SubSeq(cmds, 1, i - 1) \o SubSeq(cmds, i + 1, Len(cmds))
    ELSE cmds

\* the exception of Attach: the name, the name of the entry found, the hash
AttachError(name, found) ==
    [ what |-> AlreadyExists, name |-> name, as |-> found.mName, hash |-> Hash(name) ]

Attach_NoExistingName(cmds, name, ptr) ==
    IF FindHash(cmds, Hash(name)) # 0
    THEN [ threw |-> TRUE, cmds |-> cmds,
           error |-> [ what |-> AlreadyExists, name |-> name, as |-> name,
                       hash |-> Hash(name) ] ]
    ELSE [ threw |-> FALSE, error |-> Error(NoError),
           cmds |-> Append(cmds, [ mHash |-> Hash(name), mName |-> name, mPtr |-> ptr ]) ]

Attach_Overwrite(cmds, name, ptr) ==
    [ threw |-> FALSE, error |-> Error(NoError),
      cmds |-> Append(cmds, [ mHash |-> Hash(name), mName |-> name, mPtr |-> ptr ]) ]

\* CmdManager::Attach(name, ptr, autorel): the registry afterwards, or the
\* exception (the listener of Create is deleted by the caller's model)
Attach(cmds, name, ptr) ==
    IF FindHash(cmds, Hash(name)) # 0
    THEN [ threw |-> TRUE, cmds |-> cmds,
           error |-> AttachError(name, cmds[FindHash(cmds, Hash(name))]) ]
    ELSE [ threw |-> FALSE, error |-> Error(NoError),
           cmds |-> Append(cmds, [ mHash |-> Hash(name), mName |-> name, mPtr |-> ptr ]) ]

\* what a registration call handed back: whether it threw, and the exception
Registered(op, name, threw, error) ==
    [ op |-> op, name |-> name, threw |-> threw, error |-> error ]

CreateAttach_KeepsListener(name, r, a) ==
    IF r.threw
    THEN /\ ret' = Registered("Create", name, TRUE, Error(r.what))
         /\ UNCHANGED << listeners, m_Commands, s_Instances, routines >>
    ELSE IF a.threw
    THEN /\ ret' = Registered("Create", name, TRUE, a.error)
         /\ listeners' = Append(listeners, r.l)
         /\ m_Commands' = Append(m_Commands, [ mHash |-> Hash(name), mName |-> name,
                                               mPtr |-> Len(listeners) + 1 ])
    ELSE /\ listeners' = Append(listeners, r.l)
         /\ m_Commands' = a.cmds
         /\ ret' = Registered("Create", name, FALSE, a.error)

\* CmdManager::Create(name, spec, min, max): new CmdListener, then Attach
CreateAttach(name, r, a) ==
    IF r.threw
    THEN /\ ret' = Registered("Create", name, TRUE, Error(r.what))
         /\ UNCHANGED << listeners, m_Commands, s_Instances, routines >>
    ELSE IF a.threw
    THEN /\ ret' = Registered("Create", name, TRUE, a.error)
         /\ UNCHANGED << listeners, m_Commands, s_Instances, routines >>
    ELSE /\ listeners' = Append(listeners, r.l)
         /\ m_Commands' = a.cmds
         /\ ret' = Registered("Create", name, FALSE, a.error)

Create(name, spec, min, max) ==
    /\ ret = None
    /\ ProcSpec(spec).status \in { "ok", "throw" }
    /\ CreateAttach(name, ListenerInit(name, spec, min, max),
                    Attach(m_Commands, name, Len(listeners) + 1))
    /\ UNCHANGED << m_Context, m_OnAuth, stack, s_Instances, routines >>

\* CmdListener::Attach
ListenerAttachDone(ptr, a) ==
    /\ m_Commands' = a.cmds
    /\ ret' = Registered("Attach", listeners[ptr].m_Name, a.threw, a.error)

ListenerAttach(ptr) ==
    /\ ret = None /\ ptr \in DOMAIN listeners
    /\ IF listeners[ptr].m_Name = << >>
       THEN /\ ret' = Registered("Attach", << >>, TRUE, Error(InvalidName))
            /\ UNCHANGED m_Commands
       ELSE IF Attached(m_Commands, ptr)
       THEN /\ ret' = Registered("Attach", listeners[ptr].m_Name, TRUE, Error(AlreadyAttached))
            /\ UNCHANGED m_Commands
       ELSE ListenerAttachDone(ptr, Attach(m_Commands, listeners[ptr].m_Name, ptr))
    /\ UNCHANGED << listeners, m_Context, m_OnAuth, stack, s_Instances, routines >>

\* CmdListener::Detach
ListenerDetach(ptr) ==
    /\ ret = None /\ ptr \in DOMAIN listeners
    /\ m_Commands' = Detach(m_Commands, ptr)
    /\ ret' = Registered("Detach", listeners[ptr].m_Name, FALSE, Error(NoError))
    /\ UNCHANGED << listeners, m_Context, m_OnAuth, stack, s_Instances, routines >>

\* CmdListener::SetName
SetNameAttached(ptr, name, a) ==
    /\ listeners' = [ listeners EXCEPT ![ptr].m_Name = name ]
    /\ m_Commands' = a.cmds
    /\ ret' = Registered("SetName", name, a.threw, a.error)

SetName(ptr, name) ==
    /\ ret = None /\ ptr \in DOMAIN listeners
    /\ IF ~ValidateName(name)
       THEN /\ ret' = Registered("SetName", name, TRUE, Error(ValidateNameError(name)))
            /\ UNCHANGED << listeners, m_Commands, s_Instances, routines >>
       ELSE IF Attached(m_Commands, ptr)
       THEN SetNameAttached(ptr, name, Attach(Detach(m_Commands, ptr), name, ptr))
       ELSE /\ listeners' = [ listeners EXCEPT ![ptr].m_Name = name ]
            /\ ret' = Registered("SetName", name, FALSE, Error(NoError))
            /\ UNCHANGED m_Commands
    /\ UNCHANGED << m_Context, m_OnAuth, stack, s_Instances, routines >>

\* Cmd_FindByName: ValidateName, then CmdManager::FindByName
Cmd_FindByName(name) ==
    /\ ret = None
    /\ ret' = [ op |-> "FindByName", name |-> name, threw |-> ~ValidateName(name),
                found |-> IF ValidateName(name) THEN FindByName(m_Commands, name) ELSE 0 ]
    /\ UNCHANGED << listeners, m_Commands, m_Context, m_OnAuth, stack, s_Instances, routines >>

\* the order of characters in a String (their codes): digits, upper case
\* letters, lower case letters
CharOrder == DigitChars \o UpperChars \o LowerChars
Ord(c) == IF c \in Range(CharOrder) THEN IndexOf(CharOrder, c) ELSE 0

\* String::operator <: lexicographic, a proper prefix comes first
RECURSIVE StrLess(_, _)
StrLess(a, b) ==
    IF b = << >> THEN FALSE
    ELSE IF a = << >> THEN TRUE
    ELSE IF Ord(Head(a)) # Ord(Head(b)) THEN Ord(Head(a)) < Ord(Head(b))
    ELSE StrLess(Tail(a), Tail(b))

SortBefore_Ascending(a, b) == StrLess(a.mName, b.mName)

\* the comparator of CmdManager::Sort: TRUE iff a goes before b
SortBefore(a, b) == StrLess(b.mName, a.mName)

\* std::sort with that comparator: the entries, each before those it goes before
RECURSIVE SortInsert(_, _)
SortInsert(e, sorted) ==
    IF sorted = << >> THEN << e >>
    ELSE IF SortBefore(e, Head(sorted)) THEN << e >> \o sorted
    ELSE << Head(sorted) >> \o SortInsert(e, Tail(sorted))

RECURSIVE Sort(_)
Sort(cmds) == IF cmds = << >> THEN << >> ELSE SortInsert(Head(cmds), Sort(Tail(cmds)))

\* Cmd_Sort: the script sorts the registry
Cmd_Sort ==
    /\ ret = None
    /\ m_Commands' = Sort(m_Commands)
    /\ ret' = [ op |-> "Sort", threw |-> FALSE ]
    /\ UNCHANGED << listeners, m_Context, m_OnAuth, stack, s_Instances, routines >>

\* CmdListener::SetSpec of a listener the script holds; `after' is what the
\* memory behind the terminator of the string holds.  A write behind the
\* last position of m_ArgSpec is undefined: the call goes on to finish or to
\* throw, and ret.wrote keeps the position it wrote.
CallSetSpecDone(ptr, spec, r) ==
    /\ r.status \in { "ok", "throw" }
    /\ listeners' = [ listeners EXCEPT ![ptr] = SetSpecDone(@, spec, r).l ]
    /\ ret' = [ op |-> "SetSpec", ptr |-> ptr, spec |-> spec, threw |-> r.status = "throw",
                what |-> IF r.status = "throw" THEN r.what ELSE NoError, wrote |-> -1 ]

CallSetSpecOverrun(ptr, spec, r) ==
    /\ r.status = "ub" /\ r.wrote >= 0
    /\ \E o \in { [ status |-> "ok", spec |-> r.spec, what |-> NoError ],
                   [ status |-> "throw", spec |-> AnySpec, what |-> ExtraneousSpecifiers ],
                   [ status |-> "throw", spec |-> AnySpec, what |-> UnknownSpecifier ] } :
          /\ listeners' = [ listeners EXCEPT ![ptr] = SetSpecDone(@, spec, o).l ]
          /\ ret' = [ op |-> "SetSpec", ptr |-> ptr, spec |-> spec,
                      threw |-> o.status = "throw", what |-> o.what, wrote |-> r.wrote ]

CallSetSpec(ptr, spec, after) ==
    /\ ret = None /\ ptr \in DOMAIN listeners
    /\ \/ CallSetSpecDone(ptr, spec, ProcSpecMem(spec, after))
       \/ CallSetSpecOverrun(ptr, spec, ProcSpecMem(spec, after))
    /\ UNCHANGED << m_Commands, m_Context, m_OnAuth, stack, s_Instances, routines >>

\* CmdListener::SetMinArgC and SetMaxArgC of a listener the script holds
CallSetMinArgC(ptr, val) ==
    /\ ret = None /\ ptr \in DOMAIN listeners
    /\ listeners' = [ listeners EXCEPT ![ptr] = SetMinArgC(@, val).l ]
    /\ ret' = [ op |-> "SetMinArgC", ptr |-> ptr, val |-> val,
                threw |-> SetMinArgC(listeners[ptr], val).threw,
                what |-> SetMinArgC(listeners[ptr], val).what ]
    /\ UNCHANGED << m_Commands, m_Context, m_OnAuth, stack, s_Instances, routines >>

CallSetMaxArgC(ptr, val) ==
    /\ ret = None /\ ptr \in DOMAIN listeners
    /\ listeners' = [ listeners EXCEPT ![ptr] = SetMaxArgC(@, val).l ]
    /\ ret' = [ op |-> "SetMaxArgC", ptr |-> ptr, val |-> val,
                threw |-> SetMaxArgC(listeners[ptr], val).threw,
                what |-> SetMaxArgC(listeners[ptr], val).what ]
    /\ UNCHANGED << m_Commands, m_Context, m_OnAuth, stack, s_Instances, routines >>

(***************************************************************************)
(* The setters a script applies to a listener it holds.                    *)
(***************************************************************************)
SetOnExec(ptr) ==
    /\ ret = None /\ ptr \in DOMAIN listeners
    /\ listeners[ptr].m_Name # << >> /\ ~listeners[ptr].m_OnExec
    /\ listeners' = [ listeners EXCEPT ![ptr].m_OnExec = TRUE ]
    /\ UNCHANGED << m_Commands, m_Context, m_OnAuth, stack, ret, s_Instances, routines >>

SetOnAuth(ptr) ==
    /\ ret = None /\ ptr \in DOMAIN listeners
    /\ listeners[ptr].m_Name # << >> /\ ~listeners[ptr].m_OnAuth
    /\ listeners' = [ listeners EXCEPT ![ptr].m_OnAuth = TRUE ]
    /\ UNCHANGED << m_Commands, m_Context, m_OnAuth, stack, ret, s_Instances, routines >>

SetOnPost(ptr) ==
    /\ ret = None /\ ptr \in DOMAIN listeners
    /\ listeners[ptr].m_Name # << >> /\ ~listeners[ptr].m_OnPost
    /\ listeners' = [ listeners EXCEPT ![ptr].m_OnPost = TRUE ]
    /\ UNCHANGED << m_Commands, m_Context, m_OnAuth, stack, ret, s_Instances, routines >>

SetOnFail(ptr) ==
    /\ ret = None /\ ptr \in DOMAIN listeners
    /\ listeners[ptr].m_Name # << >> /\ ~listeners[ptr].m_OnFail
    /\ listeners' = [ listeners EXCEPT ![ptr].m_OnFail = TRUE ]
    /\ UNCHANGED << m_Commands, m_Context, m_OnAuth, stack, ret, s_Instances, routines >>

SetProtected(ptr, toggle) ==
    /\ ret = None /\ ptr \in DOMAIN listeners
    /\ listeners[ptr].m_Protected # toggle
    /\ listeners' = [ listeners EXCEPT ![ptr].m_Protected = toggle ]
    /\ UNCHANGED << m_Commands, m_Context, m_OnAuth, stack, ret, s_Instances, routines >>

\* CmdListener::SetAssociate
SetAssociate(ptr, toggle) ==
    /\ ret = None /\ ptr \in DOMAIN listeners
    /\ listeners[ptr].m_Associate # toggle
    /\ listeners' = [ listeners EXCEPT ![ptr].m_Associate = toggle ]
    /\ UNCHANGED << m_Commands, m_Context, m_OnAuth, stack, ret, s_Instances, routines >>

\* CmdListener::SetArgTag for a position in range (an empty name clears it)
SetArgTag(ptr, arg, name) ==
    /\ ret = None /\ ptr \in DOMAIN listeners
    /\ arg < SQMOD_MAX_CMD_ARGS
    /\ listeners[ptr].m_ArgTags[arg] # name
    /\ listeners' = [ listeners EXCEPT ![ptr].m_ArgTags[arg] = name ]
    /\ UNCHANGED << m_Commands, m_Context, m_OnAuth, stack, ret, s_Instances, routines >>

\* CmdListener::SetSuspended
SetSuspended(ptr, toggle) ==
    /\ ret = None /\ ptr \in DOMAIN listeners
    /\ listeners[ptr].m_Suspended # toggle
    /\ listeners' = [ listeners EXCEPT ![ptr].m_Suspended = toggle ]
    /\ UNCHANGED << m_Commands, m_Context, m_OnAuth, stack, ret, s_Instances, routines >>

SetAuthority(ptr, level) ==
    /\ ret = None /\ ptr \in DOMAIN listeners
    /\ listeners[ptr].m_Authority # level
    /\ listeners' = [ listeners EXCEPT ![ptr].m_Authority = level ]
    /\ UNCHANGED << m_Commands, m_Context, m_OnAuth, stack, ret, s_Instances, routines >>

\* Cmd_SetOnAuth: bind the process-wide authority inspector
Cmd_SetOnAuth ==
    /\ ret = None /\ ~m_OnAuth
    /\ m_OnAuth' = TRUE
    /\ UNCHANGED << listeners, m_Commands, m_Context, stack, ret, s_Instances, routines >>

(***************************************************************************)
(* CmdManager: dispatch.                                                   *)
(***************************************************************************)
\* the players a command line can come from, and Core's mAuthority of each
Invokers == { 0, 1, 2 }
PlayerAuthority(id) == IF id = 0 THEN 3 ELSE 4 + id

\* CmdManager::Context, with what the call reported and called so far
Context(invoker, command) ==
    [ mInvoker |-> invoker, command |-> command,
      mCommand |-> << >>, mArgument |-> << >>, mInstance |-> 0,
      mArgv |-> << >>, mArgc |-> 0,
      mPrevious |-> 0, guarded |-> FALSE,
      auth |-> "none", parsed |-> FALSE, read |-> -1,
      errors |-> << >>, calls |-> << >> ]

Report(ctx, type, data) == [ ctx EXCEPT !.errors = SqError(@, type, data) ]
Called(ctx, cb, result, args) ==
    [ ctx EXCEPT !.calls = Append(@, [ cb |-> cb, invoker |-> ctx.mInvoker,
                                       result |-> result, args |-> args ]) ]

\* what Function::Evaluate< bool > of an authority inspector can yield
AuthResults == { "true", "false", "null", "throw" }

\* which inspector AuthCheckID evaluates: "listener", "global" or "none"
AuthInspector(l, gOnAuth) ==
    IF ~l.m_Protected THEN "none"
    ELSE IF l.m_OnAuth THEN "listener"
    ELSE IF gOnAuth THEN "global"
    ELSE "none"

AuthCheckID_Strict(l, gOnAuth, id, outcome) ==
    IF ~l.m_Protected THEN [ threw |-> FALSE, allow |-> TRUE ]
    ELSE IF l.m_OnAuth \/ gOnAuth THEN
        [ threw |-> outcome = "throw", allow |-> outcome = "true" ]
    ELSE IF l.m_Authority >= 0 THEN
        [ threw |-> FALSE, allow |-> PlayerAuthority(id) > l.m_Authority ]
    ELSE [ threw |-> FALSE, allow |-> TRUE ]

AuthCheckID_FailOpen(l, gOnAuth, id, outcome) ==
    IF ~l.m_Protected THEN [ threw |-> FALSE, allow |-> TRUE ]
    ELSE IF l.m_OnAuth \/ gOnAuth THEN
        [ threw |-> outcome = "throw", allow |-> outcome # "false" ]
    ELSE IF l.m_Authority >= 0 THEN
        [ threw |-> FALSE, allow |-> PlayerAuthority(id) >= l.m_Authority ]
    ELSE [ threw |-> FALSE, allow |-> TRUE ]

\* CmdListener::AuthCheckID; `outcome' is what the inspector yields, if one is asked
AuthCheckID(l, gOnAuth, id, outcome) ==
    IF ~l.m_Protected THEN [ threw |-> FALSE, allow |-> TRUE ]
    ELSE IF l.m_OnAuth \/ gOnAuth THEN
        [ threw |-> outcome = "throw", allow |-> outcome = "true" ]
    ELSE IF l.m_Authority >= 0 THEN
        [ threw |-> FALSE, allow |-> PlayerAuthority(id) >= l.m_Authority ]
    ELSE [ threw |-> FALSE, allow |-> TRUE ]

ArgCheck_Unchecked(l, arg, flag) == TRUE

\* CmdListener::ArgCheck (arg < SQMOD_MAX_CMD_ARGS)
ArgCheck(l, arg, flag) ==
    LET f == l.m_ArgSpec[arg]
    IN  \/ f = CMDARG_ANY
        \/ Has(f, flag)
        \/ (Has(f, CMDARG_GREEDY) /\ Has(flag, CMDARG_STRING))

\* the argument count gates of Exec
IncompleteArgs_Inclusive(l, mArgc) == l.m_MinArgc >= mArgc
IncompleteArgs(l, mArgc) == l.m_MinArgc > mArgc
ExtraneousArgs(l, mArgc) == l.m_MaxArgc < mArgc

\* the first argument the type check of Exec stops at (mArgc if none)
FirstBadArg(l, ctx) ==
    LET Bad(arg) == arg >= SQMOD_MAX_CMD_ARGS \/ ~ArgCheck(l, arg, ctx.mArgv[arg + 1].first)
    IN  IF \E arg \in 0..(ctx.mArgc - 1) : Bad(arg)
        THEN CHOOSE arg \in 0..(ctx.mArgc - 1) :
                Bad(arg) /\ \A b \in 0..(arg - 1) : ~Bad(b)
        ELSE ctx.mArgc

\* Table::SetValue: a later value replaces the one stored under the same key
RECURSIVE TableOf(_)
TableOf(entries) ==
    IF entries = << >> THEN << >>
    ELSE LET init == TableOf(Take(entries, Len(entries) - 1))
             last == entries[Len(entries)]
         IN  IF \E i \in DOMAIN init : init[i].key = last.key
             THEN [ i \in DOMAIN init |-> IF init[i].key = last.key THEN last ELSE init[i] ]
             ELSE Append(init, last)

\* the container Exec hands to the executer: an array, or a table keyed by
\* the position's tag (by the position when it has no tag)
BuildArgs(l, ctx) ==
    LET Entry(arg) ==
            [ key |-> IF l.m_Associate /\ l.m_ArgTags[arg] # << >>
                      THEN [ idx |-> -1, tag |-> l.m_ArgTags[arg] ]
                      ELSE [ idx |-> arg, tag |-> << >> ],
              val |-> ctx.mArgv[arg + 1].second ]
        entries == [ k \in 1..ctx.mArgc |-> Entry(k - 1) ]
    IN  IF l.m_Associate THEN TableOf(entries) ELSE entries

(***************************************************************************)
(* CmdManager::Exec up to the call of the executer.  Yields the context    *)
(* afterwards and whether the executer is to be called (`invoke'); when it *)
(* is not, Exec returned -1 or threw.                                      *)
(***************************************************************************)
ExecFail_Relays(c) ==
    [ invoke |-> FALSE, threw |-> FALSE, ctx |-> Called(c, "fail", -1, << >>) ]

ExecFail(c) == [ invoke |-> FALSE, threw |-> FALSE, ctx |-> c ]
ExecThrow(c) == [ invoke |-> FALSE, threw |-> TRUE, ctx |-> c ]

\* the context once Parse returned r
Parsed(ctx, r) ==
    [ ctx EXCEPT !.mArgv = r.mArgv, !.mArgc = r.mArgc, !.read = r.read,
                 !.errors = @ \o r.errors, !.parsed = r.good ]

\* the count gates and the type check; bad is the argument the check stops at
ExecArgs(l, parsed, bad) ==
    IF IncompleteArgs(l, parsed.mArgc)
        THEN ExecFail(Report(parsed, CMDERR_INCOMPLETE_ARGS, l.m_MinArgc))
    ELSE IF ExtraneousArgs(l, parsed.mArgc)
        THEN ExecFail(Report(parsed, CMDERR_EXTRANEOUS_ARGS, l.m_MaxArgc))
    ELSE IF bad < parsed.mArgc /\ bad >= SQMOD_MAX_CMD_ARGS
        THEN ExecThrow(parsed)
    ELSE IF bad < parsed.mArgc
        THEN ExecFail(Report(parsed, CMDERR_UNSUPPORTED_ARG, bad))
    ELSE [ invoke |-> TRUE, threw |-> FALSE,
           ctx |-> Called(parsed, "exec", 0, BuildArgs(l, parsed)) ]

ExecParsed_IgnoreFailure(l, parsed) == ExecArgs(l, parsed, FirstBadArg(l, parsed))

ExecParsed(l, parsed) ==
    IF ~parsed.parsed THEN ExecFail(parsed)
    ELSE ExecArgs(l, parsed, FirstBadArg(l, parsed))

ExecGates_Suspended(l, ctx, auth) ==
    IF l.m_Suspended THEN ExecFail(ctx)
    ELSE IF auth.threw THEN ExecThrow(ctx)
    ELSE IF ~auth.allow THEN ExecFail(Report(ctx, CMDERR_INSUFFICIENT_AUTH, ctx.mInvoker))
    ELSE IF ~l.m_OnExec THEN ExecFail(Report(ctx, CMDERR_MISSING_EXECUTER, ctx.mInvoker))
    ELSE ExecParsed(l, Parsed(ctx, Parse(l.m_ArgSpec, l.m_MaxArgc, ctx.mInvoker, ctx.mArgument)))

ExecGates_ExecuterFirst(l, ctx, auth) ==
    IF ~l.m_OnExec THEN ExecFail(Report(ctx, CMDERR_MISSING_EXECUTER, ctx.mInvoker))
    ELSE IF auth.threw THEN ExecThrow(ctx)
    ELSE IF ~auth.allow THEN ExecFail(Report(ctx, CMDERR_INSUFFICIENT_AUTH, ctx.mInvoker))
    ELSE ExecParsed(l, Parsed(ctx, Parse(l.m_ArgSpec, l.m_MaxArgc, ctx.mInvoker, ctx.mArgument)))

\* the authority and executer gates, then Parse
ExecGates(l, ctx, auth) ==
    IF auth.threw THEN ExecThrow(ctx)
    ELSE IF ~auth.allow THEN ExecFail(Report(ctx, CMDERR_INSUFFICIENT_AUTH, ctx.mInvoker))
    ELSE IF ~l.m_OnExec THEN ExecFail(Report(ctx, CMDERR_MISSING_EXECUTER, ctx.mInvoker))
    ELSE ExecParsed(l, Parsed(ctx, Parse(l.m_ArgSpec, l.m_MaxArgc, ctx.mInvoker, ctx.mArgument)))

Exec(l, gOnAuth, ctx0, outcome) ==
    ExecGates(l,
              [ ctx0 EXCEPT !.mArgv = << >>, !.mArgc = 0,
                            !.auth = IF AuthInspector(l, gOnAuth) = "none" THEN "none" ELSE outcome ],
              AuthCheckID(l, gOnAuth, ctx0.mInvoker, outcome))

\* SQInteger to Int32 (ConvTo< Int32 >::From): clamped to the range of Int32
ConvToInt32(v) ==
    IF v > 2147483647 THEN 2147483647
    ELSE IF v < -2147483647 - 1 THEN -2147483647 - 1
    ELSE v

\* the executer was not called
NoOutcome == [ kind |-> "none", value |-> 0 ]

\* a Run call returns `result' to its caller (threw: it ended by an exception
\* instead); exec and cb are how the executer and the failure or post
\* callback ended, if they were called
Returned(result, ctx, exec, cb) ==
    [ op |-> "Run", threw |-> FALSE, result |-> result, ctx |-> ctx,
      exec |-> exec, cb |-> cb ]

(***************************************************************************)
(* CmdManager::Run(invoker, command) up to its return or, when every gate  *)
(* passed, up to the call of the executer (the context is then pushed and  *)
(* ExecuteReturn completes the call).  `outcome' is what the authority     *)
(* inspector yields when Exec asks one.                                    *)
(***************************************************************************)
RunReturn(result, ctx) ==
    /\ ret' = Returned(result, ctx, NoOutcome, "none")
    /\ UNCHANGED << m_Context, stack, s_Instances, routines >>

\* Exec returned ex: the executer is called, or Run returns -1
RunExec(ex) ==
    IF ex.invoke
    THEN /\ stack' = Append(stack, ex.ctx)
         /\ m_Context' = Len(stack) + 1
         /\ ret' = None
    ELSE IF ex.threw
    THEN RunReturn(-1, Report(ex.ctx, CMDERR_EXECUTION_FAILED, ex.ctx.mInvoker))
    ELSE RunReturn(-1, ex.ctx)

\* Guard: the context becomes current, the previous one is kept; FindByName
RunGuarded(ctx, outcome) ==
    IF ctx.mInstance = 0
    THEN /\ outcome = "none"
         /\ RunReturn(-1, Report(ctx, CMDERR_UNKNOWN_COMMAND, 0))
    ELSE /\ IF AuthInspector(listeners[ctx.mInstance], m_OnAuth) = "none"
            THEN outcome = "none" ELSE outcome \in AuthResults
         /\ RunExec(Exec(listeners[ctx.mInstance], m_OnAuth, ctx, outcome))

\* the command name and the argument text are split off
RunNamed(ctx, outcome) ==
    IF ~ValidateName(ctx.mCommand)
    THEN /\ outcome = "none"
         /\ RunReturn(-1, Report(ctx, CMDERR_INVALID_COMMAND, ctx.mInvoker))
    ELSE RunGuarded([ ctx EXCEPT !.guarded = TRUE, !.mPrevious = m_Context,
                                 !.mInstance = FindByName(m_Commands, ctx.mCommand) ],
                    outcome)

RunSplit(ctx, command, outcome, start, split) ==
    RunNamed([ ctx EXCEPT !.mCommand = SubSeq(command, start, split - 1),
                          !.mArgument = From(command, FindNotSpace(command, split)) ],
             outcome)

RunSkip(ctx, command, outcome, start) ==
    IF command = << >> \/ start > Len(command)
    THEN /\ outcome = "none"
         /\ RunReturn(-1, Report(ctx, CMDERR_EMPTY_COMMAND, ctx.mInvoker))
    ELSE RunSplit(ctx, command, outcome, start, FindSpace(command, start))

Run(invoker, command, outcome) ==
    /\ ret = None
    /\ RunSkip(Context(invoker, command), command, outcome, FindNotSpace(command, 1))
    /\ UNCHANGED << listeners, m_Commands, m_OnAuth, s_Instances, routines >>

\* what the executer can do: return a value, yield none, or throw
HandlerResults == (-1)..2
ExecOutcomes ==
    { [ kind |-> "value", value |-> v ] : v \in HandlerResults }
    \cup { [ kind |-> k, value |-> 0 ] : k \in { "null", "sqrat", "std" } }

Execute_NoneIsFailure(outcome) == IF outcome.kind = "value" THEN outcome.value ELSE -1

\* CmdListener::Execute: the evaluated value, 0 when there is none
Execute(outcome) == IF outcome.kind = "value" THEN outcome.value ELSE 0

GuardRelease_Keep(current, mCurrent, mPrevious) == current

\* Guard::~Guard: the context that is current once the guard is gone
GuardRelease(current, mCurrent, mPrevious) ==
    IF current = mCurrent THEN mPrevious ELSE current

\* the message Exec keeps of what the executer threw: the message of a
\* script exception, a formatted one for any other
Captured(outcome) ==
    IF outcome.kind = "sqrat" THEN << "Message" >>
    ELSE << "Application exception occurred [", "what", "]" >>

ExecReport_Twice(ctx, failed, result, message) ==
    IF failed THEN Report(Report(ctx, CMDERR_EXECUTION_FAILED, message), CMDERR_EXECUTION_FAILED, message)
    ELSE IF result = 0 THEN Report(ctx, CMDERR_EXECUTION_ABORTED, result)
    ELSE ctx

ExecReport_FailureAsAbort(ctx, failed, result, message) ==
    IF failed \/ result = 0 THEN Report(ctx, CMDERR_EXECUTION_ABORTED, result) ELSE ctx

ExecReport_FailureOnly(ctx, failed, result, message) ==
    IF failed THEN Report(ctx, CMDERR_EXECUTION_FAILED, message) ELSE ctx

\* Exec, once the executer ended: a failure or an abort is reported
ExecReport(ctx, failed, result, message) ==
    IF failed THEN Report(ctx, CMDERR_EXECUTION_FAILED, message)
    ELSE IF result = 0 THEN Report(ctx, CMDERR_EXECUTION_ABORTED, result)
    ELSE ctx

ExecRelay_PostPositive(l, failed, result) ==
    IF (failed \/ result = 0) /\ l.m_OnFail THEN "fail"
    ELSE IF ~failed /\ result > 0 /\ l.m_OnPost THEN "post"
    ELSE "none"

\* the callback Exec relays the result to: the failure callback after a
\* failure or an abort, the post callback otherwise, each only if bound
ExecRelay(l, failed, result) ==
    IF failed \/ result = 0
    THEN (IF l.m_OnFail THEN "fail" ELSE "none")
    ELSE (IF l.m_OnPost THEN "post" ELSE "none")

\* an exception of the relayed callback is caught where it is called
ExecCaught(ctx, relay, cb) ==
    IF cb \in { "sqrat", "std" }
    THEN Report(ctx, IF relay = "fail" THEN CMDERR_UNRESOLVED_FAILURE
                     ELSE CMDERR_POST_PROCESSING_FAILED, 0)
    ELSE ctx

ExecResult_CallbackDecides(failed, result, cb) ==
    IF failed \/ cb \in { "sqrat", "std" } THEN -1 ELSE result

\* the value Exec returns: -1 after a failure, else the executer's
ExecResult(failed, result, cb) == IF failed THEN -1 ELSE result

\* Exec from the return of the executer on, for listener l: the callback it
\* relays to (cb is how that one ends), the context and the value returned
ExecEnd(l, ctx, outcome, cb) ==
    LET failed == outcome.kind \in { "sqrat", "std" }
        result == IF failed THEN -1 ELSE Execute(outcome)
        relay == ExecRelay(l, failed, result)
        c1 == ExecReport(ctx, failed, result, Captured(outcome))
        c2 == IF relay = "none" THEN c1 ELSE Called(c1, relay, result, << >>)
    IN  [ relay |-> relay,
          ctx |-> ExecCaught(c2, relay, cb),
          result |-> ConvToInt32(ExecResult(failed, result, cb)) ]

(***************************************************************************)
(* The rest of CmdManager::Exec and Run for the innermost call: the        *)
(* executer ends with `outcome'; `cb' is how the failure or post callback, *)
(* if one is called, ends ("ok", "sqrat", "std"; "none": not called).      *)
(***************************************************************************)
ExecuteReturn(outcome, cb) ==
    /\ ret = None
    /\ stack # << >>
    /\ LET ctx == stack[Len(stack)]
           end == ExecEnd(listeners[ctx.mInstance], ctx, outcome, cb)
       IN  /\ IF end.relay = "none" THEN cb = "none" ELSE cb \in { "ok", "sqrat", "std" }
           /\ ret' = Returned(end.result, end.ctx, outcome, cb)
           \* ~Guard: the previous context is restored if this one is still current
           /\ m_Context' = GuardRelease(m_Context, Len(stack), ctx.mPrevious)
           /\ stack' = Take(stack, Len(stack) - 1)
    /\ UNCHANGED << listeners, m_Commands, m_OnAuth, s_Instances, routines >>

\* the caller takes the value the last call returned
Resume ==
    /\ ret # None
    /\ ret' = None
    /\ UNCHANGED << listeners, m_Commands, m_Context, m_OnAuth, stack, s_Instances, routines >>

(***************************************************************************)
(* The life of a listener.  Its script object is referenced by its         *)
(* registry entry (mObj), by every context that found it (mObject) and by  *)
(* the scripts that kept what Create, FindByName or Instance returned; the *)
(* instance is destroyed when the last reference is gone.                  *)
(***************************************************************************)
ContextsOf(ptr) == { i \in DOMAIN stack : stack[i].mInstance = ptr }

References_NoContext(ptr) ==
    (IF Attached(m_Commands, ptr) THEN 1 ELSE 0) + listeners[ptr].handles

References(ptr) ==
    (IF Attached(m_Commands, ptr) THEN 1 ELSE 0) + listeners[ptr].handles
        + Cardinality(ContextsOf(ptr))

\* a script can get at the listener: it kept a reference, FindByName gives
\* one, or Cmd_GetObject does (the object of the current context)
Reachable(ptr) ==
    /\ ~listeners[ptr].released
    /\ \/ listeners[ptr].handles > 0
       \/ Attached(m_Commands, ptr)
       \/ (m_Context # 0 /\ stack[m_Context].mInstance = ptr)

\* a script lets go of the reference it kept
DropHandle(ptr) ==
    /\ ret = None /\ ptr \in DOMAIN listeners
    /\ listeners[ptr].handles > 0
    /\ listeners' = [ listeners EXCEPT ![ptr].handles = 0 ]
    /\ UNCHANGED << m_Commands, m_Context, m_OnAuth, stack, ret, s_Instances, routines >>

\* a script keeps the reference FindByName or Cmd_GetObject gave it
TakeHandle(ptr) ==
    /\ ret = None /\ ptr \in DOMAIN listeners
    /\ Reachable(ptr) /\ listeners[ptr].handles = 0
    /\ listeners' = [ listeners EXCEPT ![ptr].handles = 1 ]
    /\ UNCHANGED << m_Commands, m_Context, m_OnAuth, stack, ret, s_Instances, routines >>

\* CmdListener::~CmdListener, run when the last reference is gone
Release(ptr) ==
    /\ ret = None /\ ptr \in DOMAIN listeners
    /\ ~listeners[ptr].released
    /\ References(ptr) = 0
    /\ m_Commands' = Detach(m_Commands, ptr)
    /\ listeners' = [ listeners EXCEPT ![ptr].released = TRUE,
                                       ![ptr].m_OnExec = FALSE, ![ptr].m_OnAuth = FALSE,
                                       ![ptr].m_OnPost = FALSE, ![ptr].m_OnFail = FALSE ]
    /\ UNCHANGED << m_Context, m_OnAuth, stack, ret, s_Instances, routines >>

\* CmdManager::Deinitialize (TerminateCmdManager), between dispatches
Deinitialize ==
    /\ ret = None /\ stack = << >>
    /\ m_Commands # << >> \/ m_OnAuth
    /\ listeners' = [ ptr \in DOMAIN listeners |->
                        IF Attached(m_Commands, ptr)
                        THEN [ listeners[ptr] EXCEPT !.m_OnExec = FALSE, !.m_OnAuth = FALSE,
                                                     !.m_OnPost = FALSE, !.m_OnFail = FALSE ]
                        ELSE listeners[ptr] ]
    /\ m_Commands' = << >>
    /\ m_Context' = 0
    /\ m_OnAuth' = FALSE
    /\ UNCHANGED << stack, ret, s_Instances, routines >>

(***************************************************************************)
(* Inputs.                                                                 *)
(***************************************************************************)
CmdName == << "c" >>
Line(name, argument) == name \o << " " >> \o argument
Words(a, b) == a \o << " " >> \o b

\* every text over the alphabet of at most n characters
RECURSIVE TextsUpTo(_, _)
TextsUpTo(alphabet, n) ==
    IF n = 0 THEN { << >> }
    ELSE LET shorter == TextsUpTo(alphabet, n - 1)
         IN  shorter \cup { Append(t, c) : t \in shorter, c \in alphabet }

\* the command lines of the dispatch specification
DispatchLines ==
    { << >>, << " " >>, << "x" >>, CmdName, << " " >> \o CmdName \o << " " >>,
      Line(CmdName, << "a" >>), Line(CmdName, << "a", " ", "7" >>),
      Line(CmdName, << "7", " ", "a", " ", "b" >>), Line(CmdName, << DQ, "a" >>) }

DispatchSpecs == { << >>, << "i" >> }
DispatchArgCounts == { << 0, SQMOD_MAX_CMD_ARGS - 1 >>, << 2, 2 >>, << 1, SQMOD_MAX_CMD_ARGS >> }
AuthorityLevels == { -1, 5 }

(***************************************************************************)
(* Routine: the pool of timed callbacks.  s_Instances holds one Instance   *)
(* per slot; a Routine object of the script refers to its slot in m_Slot   *)
(* (SQMOD_MAX_ROUTINES: none), and the Instance refers to the object in    *)
(* mInst (0: null).  stack holds the slots whose callback is being called. *)
(***************************************************************************)
SQMOD_MAX_ROUTINES == 2
\* the Routine objects a behaviour creates
MaxRoutines == 3

Slots == 0 .. (SQMOD_MAX_ROUTINES - 1)

\* Instance::Instance
Instance ==
    [ mInst |-> 0, mIterations |-> 0, mInterval |-> 0, mSuspended |-> FALSE,
      mEndure |-> FALSE, mExecuting |-> FALSE ]

NoRoutines == [ slot \in Slots |-> Instance ]

\* Instance::Init
InstanceInit(r, inst, intrv, itr) ==
    [ r EXCEPT !.mInst = inst, !.mIterations = itr, !.mInterval = intrv,
               !.mExecuting = FALSE ]

\* Instance::Release
InstanceRelease(r) == [ r EXCEPT !.mInst = 0, !.mIterations = 0, !.mInterval = 0 ]

\* Instance::Terminate: Release, then Clear (the arguments, which are not kept here)
InstanceTerminate(r) == InstanceRelease(r)

FindUnused_IgnoresExecuting(instances) ==
    IF \E slot \in DOMAIN instances : instances[slot].mInst = 0
    THEN CHOOSE slot \in DOMAIN instances :
             /\ instances[slot].mInst = 0
             /\ \A before \in DOMAIN instances :
                    before < slot => instances[before].mInst # 0
    ELSE -1

\* Routine::FindUnused: the first slot with no routine that is not executing
FindUnused(instances) ==
    IF \E slot \in DOMAIN instances :
           instances[slot].mInst = 0 /\ ~instances[slot].mExecuting
    THEN CHOOSE slot \in DOMAIN instances :
             /\ instances[slot].mInst = 0 /\ ~instances[slot].mExecuting
             /\ \A before \in DOMAIN instances :
                    before < slot =>
                        ~(instances[before].mInst = 0 /\ ~instances[before].mExecuting)
    ELSE -1

\* Routine::GetUsed
GetUsed(instances) == Cardinality({ slot \in DOMAIN instances : instances[slot].mInst # 0 })

\* the end of Instance::Execute: the count of iterations left
ExecuteIterations(r) ==
    IF r.mIterations # 0 /\ r.mIterations - 1 = 0 THEN InstanceTerminate(r)
    ELSE IF r.mIterations # 0 THEN [ r EXCEPT !.mIterations = @ - 1 ]
    ELSE r

\* Instance::Execute after sq_call returned res
ExecuteCalled(r, failed) ==
    ExecuteIterations(IF failed /\ ~r.mEndure
                      THEN InstanceTerminate([ r EXCEPT !.mExecuting = FALSE ])
                      ELSE [ r EXCEPT !.mExecuting = FALSE ])

\* a script asks for a routine: the slot FindUnused gives is initialised and
\* a Routine object that refers to it is made
RoutineCreate(itr) ==
    /\ ret = None /\ Len(routines) < MaxRoutines
    /\ IF FindUnused(s_Instances) < 0
       THEN /\ ret' = [ op |-> "Create", threw |-> TRUE, slot |-> -1 ]
            /\ UNCHANGED << s_Instances, routines >>
       ELSE /\ s_Instances' = [ s_Instances EXCEPT ![FindUnused(s_Instances)] =
                                   InstanceInit(@, Len(routines) + 1, 1, itr) ]
            /\ routines' = Append(routines, [ m_Slot |-> FindUnused(s_Instances) ])
            /\ ret' = [ op |-> "Create", threw |-> FALSE, slot |-> FindUnused(s_Instances) ]
    /\ UNCHANGED << listeners, m_Commands, m_Context, m_OnAuth, stack >>

\* Routine::Terminate
RoutineTerminate(id) ==
    /\ ret = None /\ id \in DOMAIN routines
    /\ IF routines[id].m_Slot >= SQMOD_MAX_ROUTINES
       THEN /\ ret' = [ op |-> "Terminate", threw |-> TRUE, slot |-> -1 ]
            /\ UNCHANGED << s_Instances, routines >>
       ELSE /\ s_Instances' = [ s_Instances EXCEPT ![routines[id].m_Slot] = InstanceTerminate(@) ]
            /\ routines' = [ routines EXCEPT ![id].m_Slot = SQMOD_MAX_ROUTINES ]
            /\ ret' = [ op |-> "Terminate", threw |-> FALSE, slot |-> routines[id].m_Slot ]
    /\ UNCHANGED << listeners, m_Commands, m_Context, m_OnAuth, stack >>

\* Routine::SetSuspended and Routine::SetEndure
RoutineSetSuspended(id, toggle) ==
    /\ ret = None /\ id \in DOMAIN routines
    /\ IF routines[id].m_Slot >= SQMOD_MAX_ROUTINES
       THEN /\ ret' = [ op |-> "SetSuspended", threw |-> TRUE, slot |-> -1 ]
            /\ UNCHANGED s_Instances
       ELSE /\ s_Instances' = [ s_Instances EXCEPT ![routines[id].m_Slot].mSuspended = toggle ]
            /\ ret' = [ op |-> "SetSuspended", threw |-> FALSE, slot |-> routines[id].m_Slot ]
    /\ UNCHANGED << listeners, m_Commands, m_Context, m_OnAuth, stack, routines >>

RoutineSetEndure(id, toggle) ==
    /\ ret = None /\ id \in DOMAIN routines
    /\ IF routines[id].m_Slot >= SQMOD_MAX_ROUTINES
       THEN /\ ret' = [ op |-> "SetEndure", threw |-> TRUE, slot |-> -1 ]
            /\ UNCHANGED s_Instances
       ELSE /\ s_Instances' = [ s_Instances EXCEPT ![routines[id].m_Slot].mEndure = toggle ]
            /\ ret' = [ op |-> "SetEndure", threw |-> FALSE, slot |-> routines[id].m_Slot ]
    /\ UNCHANGED << listeners, m_Commands, m_Context, m_OnAuth, stack, routines >>

\* Instance::Execute of a slot, up to sq_call: the callback is entered, or
\* Execute returns without a call (no routine, or a suspended one)
InstanceExecute(slot) ==
    /\ ret = None /\ stack = << >> /\ slot \in Slots
    /\ IF s_Instances[slot].mInst = 0
       THEN /\ ret' = [ op |-> "Execute", slot |-> slot, called |-> FALSE, interval |-> 0 ]
            /\ UNCHANGED << s_Instances, stack >>
       ELSE IF ~s_Instances[slot].mSuspended
       THEN /\ s_Instances' = [ s_Instances EXCEPT ![slot].mExecuting = TRUE ]
            /\ stack' = << [ slot |-> slot ] >>
            /\ ret' = None
       ELSE /\ s_Instances' = [ s_Instances EXCEPT ![slot] = ExecuteIterations(@) ]
            /\ ret' = [ op |-> "Execute", slot |-> slot, called |-> FALSE,
                        interval |-> ExecuteIterations(s_Instances[slot]).mInterval ]
            /\ UNCHANGED stack
    /\ UNCHANGED << listeners, m_Commands, m_Context, m_OnAuth, routines >>

\* Instance::Execute from the return of sq_call
InstanceExecuteReturn(failed) ==
    /\ ret = None /\ stack # << >>
    /\ s_Instances' = [ s_Instances EXCEPT ![stack[Len(stack)].slot] = ExecuteCalled(@, failed) ]
    /\ stack' = SubSeq(stack, 1, Len(stack) - 1)
    /\ ret' = [ op |-> "Execute", slot |-> stack[Len(stack)].slot, called |-> TRUE,
                interval |-> ExecuteCalled(s_Instances[stack[Len(stack)].slot], failed).mInterval ]
    /\ UNCHANGED << listeners, m_Commands, m_Context, m_OnAuth, routines >>

(***************************************************************************)
(* Spec: the dispatcher.  A script creates the command, configures it and  *)
(* binds its callbacks; command lines arrive and are dispatched.           *)
(***************************************************************************)
Init ==
    /\ listeners = << >>
    /\ m_Commands = << >>
    /\ m_Context = 0
    /\ m_OnAuth = FALSE
    /\ stack = << >>
    /\ ret = None
    /\ s_Instances = NoRoutines
    /\ routines = << >>

Next ==
    \/ \E spec \in DispatchSpecs, n \in DispatchArgCounts : Create(CmdName, spec, n[1], n[2])
    \/ \E ptr \in DOMAIN listeners : SetOnExec(ptr)
    \/ \E ptr \in DOMAIN listeners : SetOnAuth(ptr)
    \/ \E ptr \in DOMAIN listeners : SetOnPost(ptr)
    \/ \E ptr \in DOMAIN listeners : SetOnFail(ptr)
    \/ \E ptr \in DOMAIN listeners, toggle \in BOOLEAN : SetProtected(ptr, toggle)
    \/ \E ptr \in DOMAIN listeners, level \in AuthorityLevels : SetAuthority(ptr, level)
    \/ Cmd_SetOnAuth
    \/ \E invoker \in Invokers, command \in DispatchLines, outcome \in AuthResults \cup { "none" } :
          stack = << >> /\ Run(invoker, command, outcome)
    \/ \E outcome \in ExecOutcomes, cb \in { "none", "ok", "sqrat", "std" } : ExecuteReturn(outcome, cb)
    \/ Resume

Spec == Init /\ [][Next]_vars

(***************************************************************************)
(* SpecParse: the tokenizer.  One command exists, created from one of the  *)
(* specification strings below with its executer bound; command lines for  *)
(* it arrive with every short argument text over ParseAlphabet and with    *)
(* the example texts.                                                      *)
(***************************************************************************)
ParseAlphabet == { "7", ".", "o", "n", " ", DQ, BSL }

T_42 == << "4", "2" >>
T_3_14 == << "3", ".", "1", "4" >>
T_true == << "t", "r", "u", "e" >>
T_false == << "f", "a", "l", "s", "e" >>
T_off == << "o", "f", "f" >>
T_007 == << "0", "0", "7" >>
T_hello == << "h", "e", "l", "l", "o" >>
T_world == << "w", "o", "r", "l", "d" >>
T_quoted == << DQ, "a" >> \o << " ", "q", "u", "o", "t", "e", "d", " " >>
            \o << "s", "t", "r", "i", "n", "g", DQ >>

\* n words `7'
RECURSIVE Sevens(_)
Sevens(n) == IF n = 1 THEN << "7" >> ELSE Words(<< "7" >>, Sevens(n - 1))

ParseExamples ==
    { Words(T_42, Words(T_3_14, Words(T_true, T_quoted))),
      T_007, T_007 \o << "x" >>, Words(T_007, T_42),
      T_true, << "T", "R", "U", "E" >>, Words(T_true, << "1" >>), T_true \o << "x" >>,
      T_false, Words(T_false, << "x" >>), T_false \o << "y" >>,
      T_off, Words(T_off, << "7" >>), << "O", "n" >>, Words(<< "o", "n" >>, T_off),
      Words(T_hello, T_world), << DQ >> \o Words(T_hello, T_world) \o << DQ >>,
      << "A", "b", "C" >>, << DQ, "A", "b", "C", DQ >>,
      Sevens(SQMOD_MAX_CMD_ARGS - 1), Sevens(SQMOD_MAX_CMD_ARGS) }

ParseArguments == (TextsUpTo(ParseAlphabet, MaxLen) \ { << >> }) \cup ParseExamples

ParseSpecs ==
    { << >>, << "i" >>, << "f" >>, << "b" >>, << "i", "f" >>, << "i", "f", "b", "s" >>,
      << "l" >>, << "u" >>, << "g" >>, << "i", "|", "i" >>, << "b", "|", "b" >>,
      << "i", "|", "g" >> }
ParseMaxArgs == { 1, SQMOD_MAX_CMD_ARGS - 1 }

InitParse ==
    /\ \E spec \in ParseSpecs, max \in ParseMaxArgs :
          /\ listeners = << [ ListenerInit(CmdName, spec, 0, max).l EXCEPT !.m_OnExec = TRUE ] >>
          /\ m_Commands = << [ mHash |-> Hash(CmdName), mName |-> CmdName, mPtr |-> 1 ] >>
    /\ m_Context = 0
    /\ m_OnAuth = FALSE
    /\ stack = << >>
    /\ ret = None
    /\ s_Instances = NoRoutines
    /\ routines = << >>

NextParse ==
    \/ \E argument \in ParseArguments : stack = << >> /\ Run(0, Line(CmdName, argument), "none")
    \/ ExecuteReturn([ kind |-> "value", value |-> 1 ], "none")
    \/ Resume

SpecParse == InitParse /\ [][NextParse]_vars

(***************************************************************************)
(* SpecRegistry: the registry.  Scripts create commands under names some   *)
(* of which have the same hash, detach, attach and rename the listeners    *)
(* they hold, look names up and run command lines.                         *)
(***************************************************************************)
MaxListeners == 2

N_ab == << "a", "b" >>
N_ba == << "b", "a" >>
N_c == << "c" >>
N_d == << "d" >>

RegistryNames == { N_ab, N_ba, N_d }
RenameNames == RegistryNames \cup { << "a", " " >> }
LookupNames == RegistryNames \cup { N_c }

\* the specification strings and (min, max) counts commands are created with
RegistrySpecs == { << >>, << "x" >> }
RegistryCounts ==
    { << 0, SQMOD_MAX_CMD_ARGS - 1 >>, << 2, 1 >>, << 0, SQMOD_MAX_CMD_ARGS >> }

NextRegistry ==
    \/ \E name \in RenameNames, spec \in RegistrySpecs, n \in RegistryCounts :
          Len(listeners) < MaxListeners /\ Create(name, spec, n[1], n[2])
    \/ \E ptr \in DOMAIN listeners : ListenerAttach(ptr)
    \/ \E ptr \in DOMAIN listeners : ListenerDetach(ptr)
    \/ \E ptr \in DOMAIN listeners, name \in RenameNames : SetName(ptr, name)
    \/ \E ptr \in DOMAIN listeners : SetOnExec(ptr)
    \/ \E name \in LookupNames : Cmd_FindByName(name)
    \/ Cmd_Sort
    \/ \E name \in LookupNames : stack = << >> /\ Run(0, name, "none")
    \/ ExecuteReturn([ kind |-> "value", value |-> 1 ], "none")
    \/ Resume

SpecRegistry == Init /\ [][NextRegistry]_vars

(***************************************************************************)
(* SpecConfig: the argument specification of one command.  A script        *)
(* creates it with a specification string, then sets new strings on the    *)
(* listener it holds.                                                      *)
(***************************************************************************)
MaxSpecLen == 2

ConfigAlphabet == { "g", "i", "x", "|", " " }
\* n separators: a specification that moves to position n
Pipes(n) == [ i \in 1 .. n |-> "|" ]
ConfigExamples ==
    { << "g", "f" >>, << "f", "g" >>, << "g", "b" >>, << "b", "g" >>, << "g", "s" >>,
      << "s", "g" >>, << "g", "l" >>, << "l", "g" >>, << "g", "u" >>, << "u", "g" >>,
      << "g", "i", "g" >>, << "i", "g", "s" >>, << "i", "|", "x" >>,
      << "g", "|", "i", "x" >>, << "i", "g", "|", "g", "i" >>, << "i", ",", "f" >>,
      Pipes(SQMOD_MAX_CMD_ARGS - 1) \o << "i" >>, Pipes(SQMOD_MAX_CMD_ARGS) \o << "i" >>,
      Pipes(SQMOD_MAX_CMD_ARGS + 1) }
ConfigSpecs == TextsUpTo(ConfigAlphabet, MaxSpecLen) \cup ConfigExamples
\* what the memory behind the terminator of a specification string can hold
ConfigMemory == { << >>, << "g" >>, << "x" >> }

NextConfig ==
    \/ \E spec \in ConfigSpecs : Create(CmdName, spec, 0, SQMOD_MAX_CMD_ARGS - 1)
    \/ \E ptr \in DOMAIN listeners, spec \in ConfigSpecs, after \in ConfigMemory :
          CallSetSpec(ptr, spec, after)
    \/ Resume

SpecConfig == Init /\ [][NextConfig]_vars

(***************************************************************************)
(* SpecCounts: the argument counts of one command.  A script creates it    *)
(* with a minimum and a maximum, then sets new ones on the listener it     *)
(* holds.  The counts are Uint8 values.                                    *)
(***************************************************************************)
ArgCounts ==
    { 0, 1, 2, SQMOD_MAX_CMD_ARGS - 2, SQMOD_MAX_CMD_ARGS - 1, SQMOD_MAX_CMD_ARGS,
      SQMOD_MAX_CMD_ARGS + 1, 255 }

NextCounts ==
    \/ \E min \in ArgCounts, max \in ArgCounts : Create(CmdName, << >>, min, max)
    \/ \E ptr \in DOMAIN listeners, val \in ArgCounts : CallSetMinArgC(ptr, val)
    \/ \E ptr \in DOMAIN listeners, val \in ArgCounts : CallSetMaxArgC(ptr, val)
    \/ Resume

SpecCounts == Init /\ [][NextCounts]_vars

(***************************************************************************)
(* SpecNested: dispatch from within handlers.  One command is created; its *)
(* executer and callbacks are bound; command lines are run at the top and  *)
(* from within the executer, which can also detach the command and let go  *)
(* of its references.                                                      *)
(***************************************************************************)
MaxDepth == 2

NestedLines == { CmdName, << "x" >>, << " " >>, Line(CmdName, << "7" >>), N_ab }
NestedOutcomes ==
    { [ kind |-> "value", value |-> 1 ], [ kind |-> "value", value |-> 0 ],
      [ kind |-> "sqrat", value |-> 0 ] }

NextNested ==
    \/ listeners = << >> /\ Create(CmdName, << >>, 0, SQMOD_MAX_CMD_ARGS - 1)
    \/ \E ptr \in DOMAIN listeners : Reachable(ptr) /\ SetOnExec(ptr)
    \/ \E ptr \in DOMAIN listeners : Reachable(ptr) /\ SetOnFail(ptr)
    \/ \E ptr \in DOMAIN listeners : Reachable(ptr) /\ SetOnPost(ptr)
    \/ \E ptr \in DOMAIN listeners, toggle \in BOOLEAN : Reachable(ptr) /\ SetSuspended(ptr, toggle)
    \/ \E ptr \in DOMAIN listeners : Reachable(ptr) /\ ListenerAttach(ptr)
    \/ \E ptr \in DOMAIN listeners : Reachable(ptr) /\ ListenerDetach(ptr)
    \/ \E ptr \in DOMAIN listeners : DropHandle(ptr)
    \/ \E ptr \in DOMAIN listeners : TakeHandle(ptr)
    \/ \E ptr \in DOMAIN listeners : Release(ptr)
    \/ Deinitialize
    \/ \E command \in NestedLines : Len(stack) < MaxDepth /\ Run(0, command, "none")
    \/ \E outcome \in NestedOutcomes, cb \in { "none", "ok", "sqrat" } : ExecuteReturn(outcome, cb)
    \/ Resume

SpecNested == Init /\ [][NextNested]_vars

(***************************************************************************)
(* SpecDeliver: the container of arguments.  One command exists with its   *)
(* executer bound; the script names positions, switches between the array  *)
(* and the table, and runs the command.                                    *)
(***************************************************************************)
DeliverSpecs == { << >>, << "i" >> }
DeliverTags == { << >>, << "x" >>, << "y" >> }
DeliverArguments ==
    { << "7" >>, << "7", " ", "8" >>, << "a", " ", "b" >>, << "a", " ", "8" >> }

InitDeliver ==
    /\ \E spec \in DeliverSpecs :
          /\ listeners = << [ ListenerInit(CmdName, spec, 0, SQMOD_MAX_CMD_ARGS - 1).l
                                EXCEPT !.m_OnExec = TRUE ] >>
          /\ m_Commands = << [ mHash |-> Hash(CmdName), mName |-> CmdName, mPtr |-> 1 ] >>
    /\ m_Context = 0
    /\ m_OnAuth = FALSE
    /\ stack = << >>
    /\ ret = None
    /\ s_Instances = NoRoutines
    /\ routines = << >>

NextDeliver ==
    \/ \E toggle \in BOOLEAN : SetAssociate(1, toggle)
    \/ \E arg \in 0..1, name \in DeliverTags : SetArgTag(1, arg, name)
    \/ \E argument \in DeliverArguments : stack = << >> /\ Run(0, Line(CmdName, argument), "none")
    \/ ExecuteReturn([ kind |-> "value", value |-> 1 ], "none")
    \/ Resume

SpecDeliver == InitDeliver /\ [][NextDeliver]_vars

(***************************************************************************)
(* SpecRoutine: the slot pool.  Scripts create routines that run once,     *)
(* twice or for ever, suspend them, let them endure errors and terminate   *)
(* them, at any time and from within a callback; the scheduler executes    *)
(* the slots one at a time, and a callback returns or fails.               *)
(***************************************************************************)
RoutineIterations == { 0, 1, 2 }

InitRoutine ==
    /\ listeners = << >>
    /\ m_Commands = << >>
    /\ m_Context = 0
    /\ m_OnAuth = FALSE
    /\ stack = << >>
    /\ ret = None
    /\ s_Instances = NoRoutines
    /\ routines = << >>

NextRoutine ==
    \/ \E itr \in RoutineIterations : RoutineCreate(itr)
    \/ \E id \in DOMAIN routines : RoutineTerminate(id)
    \/ \E id \in DOMAIN routines, toggle \in BOOLEAN : RoutineSetSuspended(id, toggle)
    \/ \E id \in DOMAIN routines, toggle \in BOOLEAN : RoutineSetEndure(id, toggle)
    \/ \E slot \in Slots : InstanceExecute(slot)
    \/ \E failed \in BOOLEAN : InstanceExecuteReturn(failed)
    \/ Resume

SpecRoutine == InitRoutine /\ [][NextRoutine]_vars

(***************************************************************************)
(* Properties.  Vocabulary shared by the statements below.                 *)
(***************************************************************************)
HasError(ctx, type) == \E i \in DOMAIN ctx.errors : ctx.errors[i].type = type
OnlyError(ctx, type, data) == ctx.errors = << [ type |-> type, data |-> data ] >>
ExecCalls(ctx) == { i \in DOMAIN ctx.calls : ctx.calls[i].cb = "exec" }

\* a step in which Run calls the executer (its context is pushed)
Invoked == Len(stack') > Len(stack)
\* a step of Run: it calls the executer, or returns without having called it
RunStep == ret = None /\ (Invoked \/ (ret'.op = "Run" /\ Len(stack') = Len(stack)))
\* the context of the Run that took the step
NewCtx == IF Invoked THEN stack'[Len(stack')] ELSE ret'.ctx

\* the authority decision as the specification words it (ctx.auth: what the
\* inspector said, when one was asked)
Allowed(ctx, l, gOnAuth) ==
    IF ~l.m_Protected THEN TRUE
    ELSE IF l.m_OnAuth THEN ctx.auth = "true"
    ELSE IF gOnAuth THEN ctx.auth = "true"
    ELSE IF l.m_Authority >= 0 THEN PlayerAuthority(ctx.mInvoker) >= l.m_Authority
    ELSE TRUE

\* a type tag is compatible with the flags of a position
Compatible(flags, tag) ==
    \/ flags = {}
    \/ tag \subseteq flags
    \/ ("greedy" \in flags /\ tag = { "string" })

\* the number of white-space separated words of a text
RECURSIVE CountWords(_)
CountWords(text) ==
    LET start == FindNotSpace(text, 1)
    IN  IF start > Len(text) THEN 0
        ELSE 1 + CountWords(From(text, FindSpace(text, start)))

QuoteFree(text) == \A i \in DOMAIN text : text[i] \notin { SQ, DQ, BSL }

\* C1: Run never ends by an exception.  A Run that did not call the executer
\* returns -1 and reported an error; one whose executer threw returns -1 and
\* reported ExecutionFailed; one whose executer returned zero or no value
\* returns 0 and reported ExecutionAborted; otherwise Run returns the
\* executer's own result.
C1_RunReturnsResult ==
    ret.op = "Run" =>
        /\ ~ret.threw
        /\ ret.exec.kind = "none" =>
              ret.result = -1 /\ ret.ctx.errors # << >> /\ ExecCalls(ret.ctx) = {}
        /\ ret.exec.kind \in { "sqrat", "std" } =>
              ret.result = -1 /\ HasError(ret.ctx, CMDERR_EXECUTION_FAILED)
        /\ (ret.exec.kind = "null" \/ (ret.exec.kind = "value" /\ ret.exec.value = 0)) =>
              ret.result = 0 /\ HasError(ret.ctx, CMDERR_EXECUTION_ABORTED)
        /\ (ret.exec.kind = "value" /\ ret.exec.value # 0) =>
              ret.result = ret.exec.value

\* the executer threw, the failure callback threw as well, and Run returned -1
C1_Witness ==
    ret.op = "Run" /\ ret.exec.kind = "std" /\ ret.cb = "sqrat" /\ ret.result = -1

C3_AuthorityDecision ==
    [][(RunStep /\ NewCtx.mInstance # 0 /\ NewCtx.auth \in { "none", "true", "false" }) =>
            LET ctx == NewCtx
                l == listeners[ctx.mInstance]
            IN  IF Allowed(ctx, l, m_OnAuth)
                THEN ~HasError(ctx, CMDERR_INSUFFICIENT_AUTH)
                ELSE /\ ~Invoked
                     /\ ret'.result = -1
                     /\ OnlyError(ctx, CMDERR_INSUFFICIENT_AUTH, ctx.mInvoker)
                     /\ ctx.calls = << >>]_vars

\* level 5, no inspector bound: the invoker of authority 3 was denied
C3_Witness ==
    /\ ret.op = "Run" /\ ret.ctx.mInstance # 0
    /\ listeners[ret.ctx.mInstance].m_Protected
    /\ ~listeners[ret.ctx.mInstance].m_OnAuth /\ ~m_OnAuth
    /\ listeners[ret.ctx.mInstance].m_Authority = 5
    /\ PlayerAuthority(ret.ctx.mInvoker) = 3
    /\ HasError(ret.ctx, CMDERR_INSUFFICIENT_AUTH)

\* C4: when the inspector asked yields no boolean (no value, or its
\* evaluation fails), the executer is not called and Run returns -1; with no
\* value the report is InsufficientAuth.
C4_AuthorityFailClosed ==
    /\ \A i \in DOMAIN stack : stack[i].auth \notin { "null", "throw" }
    /\ (ret.op = "Run" /\ ret.ctx.auth \in { "null", "throw" }) =>
          /\ ret.result = -1
          /\ ret.exec.kind = "none" /\ ret.ctx.calls = << >>
          /\ ret.ctx.auth = "null" =>
                OnlyError(ret.ctx, CMDERR_INSUFFICIENT_AUTH, ret.ctx.mInvoker)

\* the inspector gave no value for an invoker the level check would allow
C4_Witness ==
    /\ ret.op = "Run" /\ ret.ctx.auth = "null"
    /\ listeners[ret.ctx.mInstance].m_Authority = 5
    /\ PlayerAuthority(ret.ctx.mInvoker) > 5
    /\ ret.result = -1

\* C5: for a found command with its executer bound, an allowed invoker and
\* a quote-free argument text: fewer words than minArgs make Run report
\* IncompleteArgs only, return -1 and not call the executer; a number of
\* words within [minArgs, maxArgs] passes both count gates.
C5_IncompleteArgs ==
    [][(RunStep /\ NewCtx.mInstance # 0) =>
            LET ctx == NewCtx
                l == listeners[ctx.mInstance]
                words == CountWords(ctx.mArgument)
            IN  (l.m_OnExec /\ Allowed(ctx, l, m_OnAuth) /\ ctx.auth # "throw"
                 /\ QuoteFree(ctx.mArgument)) =>
                    /\ words < l.m_MinArgc =>
                          /\ ~Invoked
                          /\ ret'.result = -1
                          /\ OnlyError(ctx, CMDERR_INCOMPLETE_ARGS, l.m_MinArgc)
                          /\ ctx.calls = << >>
                    /\ (l.m_MinArgc <= words /\ words <= l.m_MaxArgc) =>
                          /\ ctx.mArgc = words
                          /\ ~HasError(ctx, CMDERR_INCOMPLETE_ARGS)
                          /\ ~HasError(ctx, CMDERR_EXTRANEOUS_ARGS)]_vars

\* empty argument text for a command with minArgs = 2: IncompleteArgs
C5_Witness ==
    /\ ret.op = "Run" /\ ret.ctx.mInstance # 0
    /\ ret.ctx.mArgument = << >>
    /\ listeners[ret.ctx.mInstance].m_MinArgc = 2
    /\ OnlyError(ret.ctx, CMDERR_INCOMPLETE_ARGS, 2)

\* C6 as claimed: for a found command with its executer bound, an allowed
\* invoker and a quote-free argument text of more words than maxArgs, Run
\* reports ExtraneousArgs and does not call the executer.
C6_ExtraneousArgsReported ==
    [][(RunStep /\ NewCtx.mInstance # 0) =>
            LET ctx == NewCtx
                l == listeners[ctx.mInstance]
            IN  (l.m_OnExec /\ Allowed(ctx, l, m_OnAuth) /\ ctx.auth # "throw"
                 /\ QuoteFree(ctx.mArgument)
                 /\ CountWords(ctx.mArgument) > l.m_MaxArgc) =>
                    ~Invoked /\ HasError(ctx, CMDERR_EXTRANEOUS_ARGS)]_vars

\* C6 as amended: the tokenizer stops after maxArgs arguments, so Run never
\* reports ExtraneousArgs; a quote-free text of more words than maxArgs goes
\* on to the type check with exactly maxArgs arguments.
C6_ExtraneousArgsNeverReported ==
    [][RunStep =>
            /\ ~HasError(NewCtx, CMDERR_EXTRANEOUS_ARGS)
            /\ NewCtx.mInstance # 0 =>
                  LET ctx == NewCtx
                      l == listeners[ctx.mInstance]
                  IN  (l.m_OnExec /\ Allowed(ctx, l, m_OnAuth) /\ ctx.auth # "throw"
                       /\ QuoteFree(ctx.mArgument)
                       /\ CountWords(ctx.mArgument) > l.m_MaxArgc) =>
                          ctx.mArgc = l.m_MaxArgc]_vars

\* three words for a command with minArgs = maxArgs = 2: the executer runs
C6_Witness ==
    /\ stack # << >>
    /\ CountWords(stack[1].mArgument) = 3
    /\ listeners[stack[1].mInstance].m_MaxArgc = 2
    /\ stack[1].mArgc = 2

(***************************************************************************)
(* Properties of the tokenizer (SpecParse).                                *)
(***************************************************************************)
\* the contexts whose argument text went through Parse
ParsedContexts ==
    { c \in { stack[i] : i \in DOMAIN stack }
            \cup (IF ret.op = "Run" THEN { ret.ctx } ELSE {}) : c.parsed }

\* the white-space separated words of a text, in order
RECURSIVE WordsOf(_)
WordsOf(text) ==
    LET start == FindNotSpace(text, 1)
        stop == FindSpace(text, start)
    IN  IF start > Len(text) THEN << >>
        ELSE << SubSeq(text, start, stop - 1) >> \o WordsOf(From(text, stop))

WholeInteger(run) == strtoll(run).next = Len(run)
WholeFloat(run) == strtod(run).next = Len(run)
TrueWords == { << "t", "r", "u", "e" >>, << "o", "n" >> }
FalseWords == { << "f", "a", "l", "s", "e" >>, << "o", "f", "f" >> }

\* the pair the specification infers for a run at a position of any type
Inferred(run) ==
    IF WholeInteger(run) THEN Arg(CMDARG_INTEGER, IntObj(strtoll(run).value))
    ELSE IF WholeFloat(run) THEN Arg(CMDARG_FLOAT, FloatObj(strtod(run).mant, strtod(run).exp))
    ELSE IF Len(run) <= 5 /\ ToLowerStr(run) \in TrueWords THEN Arg(CMDARG_BOOLEAN, BoolObj(TRUE))
    ELSE IF Len(run) <= 5 /\ ToLowerStr(run) \in FalseWords THEN Arg(CMDARG_BOOLEAN, BoolObj(FALSE))
    ELSE Arg(CMDARG_STRING, StrObj(run))

\* C7: at positions of any type an unquoted token is stored as integer when
\* the whole run is a base-10 integer, else float when the whole run is a
\* float, else boolean for true/on/false/off, else string; the text
\* `42 3.14 true "a quoted string"' yields (integer,42), (float,3.14),
\* (boolean,true), (string,"a quoted string").
C7_AnyTypeInference ==
    \A c \in ParsedContexts :
        LET l == listeners[c.mInstance]
            words == WordsOf(c.mArgument)
        IN  l.m_ArgSpec = AnySpec =>
              /\ (QuoteFree(c.mArgument) /\ Len(words) <= l.m_MaxArgc) =>
                    c.mArgv = [ k \in 1..Len(words) |-> Inferred(words[k]) ]
              /\ (c.mArgument = Words(T_42, Words(T_3_14, Words(T_true, T_quoted)))
                  /\ l.m_MaxArgc >= 4) =>
                    c.mArgv = << Arg(CMDARG_INTEGER, IntObj(42)),
                                 Arg(CMDARG_FLOAT, FloatObj(314, -2)),
                                 Arg(CMDARG_BOOLEAN, BoolObj(TRUE)),
                                 Arg(CMDARG_STRING, StrObj(SubSeq(T_quoted, 2, Len(T_quoted) - 1))) >>

\* C8: at an integer-only position a token that is wholly a base-10 integer
\* is stored as the single pair (integer, value); a token with a trailing
\* character is stored as the single pair (string, token).
C8_WholeTokenInteger ==
    \A c \in ParsedContexts :
        LET l == listeners[c.mInstance]
            words == WordsOf(c.mArgument)
        IN  (l.m_ArgSpec[0] = CMDARG_INTEGER /\ QuoteFree(c.mArgument) /\ Len(words) = 1) =>
              c.mArgv = IF WholeInteger(words[1])
                        THEN << Arg(CMDARG_INTEGER, IntObj(strtoll(words[1]).value)) >>
                        ELSE << Arg(CMDARG_STRING, StrObj(words[1])) >>

\* the pairs a token can be stored as
PairsOf(run) ==
    { Arg(CMDARG_INTEGER, IntObj(strtoll(run).value)),
      Arg(CMDARG_FLOAT, FloatObj(strtod(run).mant, strtod(run).exp)),
      Arg(CMDARG_BOOLEAN, BoolObj(TRUE)), Arg(CMDARG_BOOLEAN, BoolObj(FALSE)),
      Arg(CMDARG_STRING, StrObj(run)),
      Arg(CMDARG_STRING, StrObj(ToLowerStr(run))), Arg(CMDARG_STRING, StrObj(ToUpperStr(run))) }

\* C9: each token contributes exactly one pair: after tokenizing, the number
\* of stored pairs equals the argument count, and the k-th stored pair is
\* the one made from the k-th token.
C9_OnePairPerToken ==
    \A c \in ParsedContexts :
        LET l == listeners[c.mInstance]
            words == WordsOf(c.mArgument)
        IN  /\ Len(c.mArgv) = c.mArgc
            /\ (QuoteFree(c.mArgument) /\ ~Has(l.m_ArgSpec[0], CMDARG_GREEDY)) =>
                  \A k \in 1..c.mArgc :
                      k <= Len(c.mArgv) /\ k <= Len(words) /\ c.mArgv[k] \in PairsOf(words[k])

\* C10: at a position that accepts booleans a run of at most 5 characters
\* that is true or on, whatever the case, is stored as (boolean,true), one
\* that is false or off as (boolean,false), whatever follows the run in the
\* text; every other run is not stored as a boolean.
C10_BooleanRun ==
    \A c \in ParsedContexts :
        LET l == listeners[c.mInstance]
            words == WordsOf(c.mArgument)
            pairs == { c.mArgv[k] : k \in DOMAIN c.mArgv }
        IN  (Has(l.m_ArgSpec[0], CMDARG_BOOLEAN) /\ QuoteFree(c.mArgument) /\ Len(words) >= 1
             /\ ~WholeInteger(words[1]) /\ ~WholeFloat(words[1])) =>
              IF Len(words[1]) <= 5 /\ ToLowerStr(words[1]) \in TrueWords
              THEN c.mArgv[1] = Arg(CMDARG_BOOLEAN, BoolObj(TRUE))
              ELSE IF Len(words[1]) <= 5 /\ ToLowerStr(words[1]) \in FalseWords
              THEN c.mArgv[1] = Arg(CMDARG_BOOLEAN, BoolObj(FALSE))
              ELSE c.mArgv[1].first # CMDARG_BOOLEAN

\* the content of a quoted argument read from position i on: the characters
\* up to the first quote `close' that no backslash precedes, each escaped
\* quote as the quote alone; closed: whether that quote was found
RECURSIVE QuotedContent(_, _, _)
QuotedContent(text, i, close) ==
    IF i > Len(text) THEN [ closed |-> FALSE, value |-> << >> ]
    ELSE IF text[i] = close THEN [ closed |-> TRUE, value |-> << >> ]
    ELSE IF text[i] = BSL /\ At(text, i + 1) = close
    THEN [ closed |-> QuotedContent(text, i + 2, close).closed,
           value |-> << close >> \o QuotedContent(text, i + 2, close).value ]
    ELSE [ closed |-> QuotedContent(text, i + 1, close).closed,
           value |-> << text[i] >> \o QuotedContent(text, i + 1, close).value ]

\* C11: a quoted argument yields one string argument whose value is exactly
\* the characters between the opening quote and the first identical
\* unescaped quote, escaped quotes as the quote alone: no character is
\* lost, and a pair of quotes with nothing between yields the empty string.
C11_QuotedArgument ==
    \A c \in ParsedContexts :
        LET flags == listeners[c.mInstance].m_ArgSpec[0]
            text == c.mArgument
        IN  (/\ text # << >> /\ text[1] \in { SQ, DQ }
             /\ flags \cap (CMDARG_GREEDY \cup CMDARG_LOWER \cup CMDARG_UPPER) = {}
             /\ QuotedContent(text, 2, text[1]).closed) =>
              /\ c.mArgv # << >>
              /\ c.mArgv[1] = Arg(CMDARG_STRING, StrObj(QuotedContent(text, 2, text[1]).value))

\* first position of the text that holds a quote or a backslash (0 if none)
FirstQuote(text) ==
    IF QuoteFree(text) THEN 0
    ELSE CHOOSE p \in DOMAIN text :
            text[p] \in { SQ, DQ, BSL } /\ QuoteFree(Take(text, p - 1))

\* the tokenizer meets a quoted argument that the text never closes: after
\* k quote-free words the next word opens with a quote that has no
\* unescaped match, and positions 0..k are not greedy and within maxArgs
OpensUnclosed(c) ==
    LET text == c.mArgument
        p == FirstQuote(text)
        k == CountWords(Take(text, p - 1))
        l == listeners[c.mInstance]
    IN  /\ c.mInstance # 0 /\ l.m_OnExec
        /\ p > 0 /\ text[p] \in { SQ, DQ }
        /\ (p = 1 \/ isspace(text[p - 1]))
        /\ k < l.m_MaxArgc
        /\ \A n \in 0..k : ~Has(l.m_ArgSpec[n], CMDARG_GREEDY)
        /\ ~QuotedContent(text, p + 1, text[p]).closed

\* C12: when the argument text ends inside a quoted argument, Run reports
\* SyntaxError and nothing else, returns -1 and does not call the executer.
C12_UnclosedQuote ==
    /\ \A i \in DOMAIN stack : ~OpensUnclosed(stack[i])
    /\ (ret.op = "Run" /\ OpensUnclosed(ret.ctx)) =>
          /\ ret.result = -1
          /\ OnlyError(ret.ctx, CMDERR_SYNTAX_ERROR,
                       CountWords(Take(ret.ctx.mArgument, FirstQuote(ret.ctx.mArgument) - 1)))
          /\ ret.ctx.calls = << >>

\* a word, then a quote that is never closed: SyntaxError at argument 1
C12_Witness ==
    /\ ret.op = "Run"
    /\ ret.ctx.mArgument = << "7", " ", DQ >>
    /\ OnlyError(ret.ctx, CMDERR_SYNTAX_ERROR, 1)
    /\ ret.result = -1

\* the text without its leading white space
LStrip(text) == From(text, FindNotSpace(text, 1))

\* the text that follows the first k words of a text
RECURSIVE AfterWords(_, _)
AfterWords(text, k) ==
    IF k = 0 THEN text
    ELSE AfterWords(From(text, FindSpace(text, FindNotSpace(text, 1))), k - 1)

\* C13: at a position whose flags include greedy (position 0, or position 1
\* after a quote-free word) with text left, the tokenizer stores one string
\* argument equal to all the text left without its leading white space
\* (empty when only white space is left) and parses nothing after it.
C13_GreedyArgument ==
    \A c \in ParsedContexts :
        LET l == listeners[c.mInstance]
            text == c.mArgument
            k == IF Has(l.m_ArgSpec[0], CMDARG_GREEDY) THEN 0 ELSE 1
            rest == AfterWords(text, k)
        IN  (/\ Has(l.m_ArgSpec[k], CMDARG_GREEDY) /\ k < l.m_MaxArgc
             /\ CountWords(text) >= k /\ QuoteFree(Take(text, Len(text) - Len(rest)))
             /\ rest # << >>) =>
              /\ c.mArgc = k + 1
              /\ c.mArgv # << >>
              /\ c.mArgv[Len(c.mArgv)] = Arg(CMDARG_STRING, StrObj(LStrip(rest)))

\* C14: the tokenizer stops once maxArgs arguments are taken: whatever
\* follows the maxArgs-th word (more words, an unclosed quote) is not
\* parsed and is no error, and the dispatch goes on with maxArgs arguments.
C14_StopsAtMaxArgs ==
    \A c \in { stack[i] : i \in DOMAIN stack } \cup (IF ret.op = "Run" THEN { ret.ctx } ELSE {}) :
        LET l == listeners[c.mInstance]
            text == c.mArgument
            head == Take(text, Len(text) - Len(AfterWords(text, l.m_MaxArgc)))
        IN  (/\ c.mInstance # 0 /\ l.m_OnExec /\ c.auth = "none"
             /\ CountWords(head) = l.m_MaxArgc /\ QuoteFree(head)
             /\ \A n \in 0..(l.m_MaxArgc - 1) : ~Has(l.m_ArgSpec[n], CMDARG_GREEDY)) =>
              /\ c.parsed
              /\ c.mArgc = l.m_MaxArgc
              /\ \A i \in DOMAIN c.errors : c.errors[i].type = CMDERR_UNSUPPORTED_ARG

\* maxArgs = 1 and an unclosed quote after the first word: the executer runs
C14_Witness ==
    /\ stack # << >>
    /\ listeners[stack[1].mInstance].m_MaxArgc = 1
    /\ stack[1].mArgument = << "7", " ", DQ >>
    /\ stack[1].mArgc = 1


(***************************************************************************)
(* Registry.                                                               *)
(***************************************************************************)
RegistrationOps == { "Create", "Attach", "SetName" }
\* the call that returned last was a registration that found the hash taken
Rejected(r) == r.op \in RegistrationOps /\ r.threw /\ r.error.what = AlreadyExists

C16_UniqueNames ==
    /\ [](\A i, j \in DOMAIN m_Commands :
             i # j => /\ m_Commands[i].mName # m_Commands[j].mName
                      /\ m_Commands[i].mHash # m_Commands[j].mHash)
    /\ [][ret = None /\ Rejected(ret') =>
             \A i \in DOMAIN m_Commands :
                 m_Commands[i].mHash = ret'.error.hash =>
                     /\ \E j \in DOMAIN m_Commands' : m_Commands'[j] = m_Commands[i]
                     /\ listeners'[m_Commands[i].mPtr] = listeners[m_Commands[i].mPtr]]_vars

C16_Witness ==
    /\ Rejected(ret) /\ ret.op = "SetName"
    /\ Len(m_Commands) = 1 /\ Len(listeners) = 2
    /\ m_Commands[1].mName = ret.error.as

\* C17: a lookup finds a command only under the command's own name.
\* FindByName(n) returns a command only if its name is n and nothing if no
\* command named n is registered; Run calls the executer of the command
\* whose name is the command word, and reports UnknownCommand when no
\* command of that name is registered.
C17_LookupByName ==
    /\ [](ret.op = "FindByName" /\ ~ret.threw =>
             IF \E i \in DOMAIN m_Commands : m_Commands[i].mName = ret.name
             THEN ret.found # 0 /\ listeners[ret.found].m_Name = ret.name
             ELSE ret.found = 0)
    /\ [][RunStep /\ ValidateName(NewCtx.mCommand) =>
             IF \E i \in DOMAIN m_Commands : m_Commands[i].mName = NewCtx.mCommand
             THEN NewCtx.mInstance # 0
                  /\ listeners[NewCtx.mInstance].m_Name = NewCtx.mCommand
             ELSE HasError(NewCtx, CMDERR_UNKNOWN_COMMAND)]_vars

(***************************************************************************)
(* Configuration.                                                          *)
(***************************************************************************)
\* C18: when compiling a specification string fails, every position of the
\* listener is `any' afterwards, whatever the positions of the failing
\* string before the failure or the string compiled before had set; an
\* unknown letter fails with the unknown type specifier error.
C18_FailedSpecResets ==
    /\ (ret.op = "SetSpec" /\ ret.threw => listeners[ret.ptr].m_ArgSpec = AnySpec)
    /\ (ret.op = "SetSpec" /\ (\E i \in DOMAIN ret.spec : ret.spec[i] = "x")
           /\ (\A i \in DOMAIN ret.spec : ret.spec[i] # ",")
        => ret.threw /\ ret.what = UnknownSpecifier)

\* the string failing at its second position replaces a compiled one
C18_Witness ==
    /\ ret.op = "SetSpec" /\ ret.threw /\ ret.spec = << "i", "|", "x" >>
    /\ listeners[ret.ptr].m_Spec = << "i", "g", "|", "g", "i" >>
    /\ listeners[ret.ptr].m_ArgSpec = AnySpec

\* the letters of the text, up to the first `|', and the text behind it
RECURSIVE FirstPosition(_)
FirstPosition(text) ==
    IF text = << >> \/ Head(text) = "|" THEN << >>
    ELSE << Head(text) >> \o FirstPosition(Tail(text))

RECURSIVE PositionOf(_, _)
PositionOf(text, n) ==
    IF n = 0 THEN FirstPosition(text)
    ELSE IF Len(FirstPosition(text)) >= Len(text) THEN << >>
    ELSE PositionOf(From(text, Len(FirstPosition(text)) + 2), n - 1)

LettersOnly(text) == \A i \in DOMAIN text : text[i] \in SpecLetters \cup { "|" }

\* C19: after a successful compilation no position has greedy together with
\* another flag; a position whose last letter is g is greedy only, and one
\* whose last letter is another letter is not greedy.
C19_GreedyExclusive ==
    /\ \A ptr \in DOMAIN listeners : \A n \in DOMAIN listeners[ptr].m_ArgSpec :
          Has(listeners[ptr].m_ArgSpec[n], CMDARG_GREEDY)
              => listeners[ptr].m_ArgSpec[n] = CMDARG_GREEDY
    /\ (ret.op = "SetSpec" /\ ~ret.threw /\ LettersOnly(ret.spec) =>
           \A n \in 0..(SQMOD_MAX_CMD_ARGS - 1) :
               LET letters == PositionOf(ret.spec, n)
                   flags == listeners[ret.ptr].m_ArgSpec[n]
               IN  IF letters = << >> THEN flags = CMDARG_ANY
                   ELSE IF letters[Len(letters)] = "g" THEN flags = CMDARG_GREEDY
                   ELSE ~Has(flags, CMDARG_GREEDY) /\ flags # CMDARG_ANY)

C19_Witness ==
    /\ ret.op = "SetSpec" /\ ~ret.threw /\ ret.spec = << "i", "g", "|", "g", "i" >>
    /\ listeners[ret.ptr].m_ArgSpec[0] = CMDARG_GREEDY
    /\ listeners[ret.ptr].m_ArgSpec[1] = CMDARG_INTEGER

\* C20: every command has m_MinArgc <= m_MaxArgc < SQMOD_MAX_CMD_ARGS after
\* construction and after every call of SetMinArgC and SetMaxArgC; a call
\* whose value would break this throws and leaves both as they were, any
\* other call stores the value.
C20_ArgCountBounds ==
    /\ [](\A ptr \in DOMAIN listeners :
             /\ 0 <= listeners[ptr].m_MinArgc
             /\ listeners[ptr].m_MinArgc <= listeners[ptr].m_MaxArgc
             /\ listeners[ptr].m_MaxArgc < SQMOD_MAX_CMD_ARGS)
    /\ [][ret = None /\ ret'.op = "SetMinArgC" =>
             IF ret'.val >= SQMOD_MAX_CMD_ARGS \/ ret'.val > listeners[ret'.ptr].m_MaxArgc
             THEN ret'.threw /\ listeners' = listeners
             ELSE ~ret'.threw
                  /\ listeners' = [ listeners EXCEPT ![ret'.ptr].m_MinArgc = ret'.val ]]_vars
    /\ [][ret = None /\ ret'.op = "SetMaxArgC" =>
             IF ret'.val >= SQMOD_MAX_CMD_ARGS \/ ret'.val < listeners[ret'.ptr].m_MinArgc
             THEN ret'.threw /\ listeners' = listeners
             ELSE ~ret'.threw
                  /\ listeners' = [ listeners EXCEPT ![ret'.ptr].m_MaxArgc = ret'.val ]]_vars
    /\ [][ret = None /\ ret'.op = "Create" /\ ~ret'.threw =>
             listeners'[Len(listeners')].m_MinArgc <= listeners'[Len(listeners')].m_MaxArgc]_vars

C20_Witness ==
    /\ ret.op = "SetMinArgC" /\ ret.threw /\ ret.what = MinExceedsMax
    /\ listeners[ret.ptr].m_MinArgc = 1 /\ listeners[ret.ptr].m_MaxArgc = 2


(***************************************************************************)
(* Failed creation.                                                        *)
(***************************************************************************)
\* C21: a Create call fails exactly when the name is not valid, the hash of
\* the name is taken, the specification string does not compile or a count
\* is out of range; it then throws to its caller, reports nothing to the
\* error sink and leaves the registry as it was: the count of commands, the
\* result of FindByName for every name, the listeners and the contexts of
\* the calls in progress are the same as before.
C21_FailedCreate ==
    [][(ret = None /\ ret'.op = "Create") =>
          /\ ret'.threw <=>
                \/ ~ValidateName(ret'.name)
                \/ FindHash(m_Commands, Hash(ret'.name)) # 0
                \/ ret'.error.what \in { UnknownSpecifier, ExtraneousSpecifiers,
                                         OutOfRange, MinExceedsMax }
          /\ ret'.threw =>
                /\ Len(m_Commands') = Len(m_Commands)
                /\ \A name \in LookupNames :
                      FindByName(m_Commands', name) = FindByName(m_Commands, name)
                /\ m_Commands' = m_Commands
                /\ listeners' = listeners
                /\ stack' = stack /\ m_Context' = m_Context
          /\ ~ret'.threw =>
                /\ Len(m_Commands') = Len(m_Commands) + 1
                /\ FindByName(m_Commands', ret'.name) = Len(listeners')]_vars

\* a string with an unknown letter is refused while a command is registered
C21_Witness ==
    /\ ret.op = "Create" /\ ret.threw /\ ret.error.what = UnknownSpecifier
    /\ Len(m_Commands) = 1 /\ Len(listeners) = 1


(***************************************************************************)
(* Contexts of nested dispatch (SpecNested).                               *)
(***************************************************************************)
\* the callbacks a context recorded as called
CallsTo(ctx, cb) == { i \in DOMAIN ctx.calls : ctx.calls[i].cb = cb }
\* a step in which the innermost Run returns from its executer
Returns == Len(stack') < Len(stack)

\* C22: the current context is always that of the innermost Run in
\* progress that reached the lookup, each remembers the one that was
\* current when it was entered, a Run that returns puts that one back on
\* every path (success, failure before the executer, executer or callback
\* exception, nested Runs), and with no Run in progress there is none.
C22_ContextStack ==
    /\ [](/\ m_Context = Len(stack)
          /\ \A i \in DOMAIN stack : stack[i].guarded /\ stack[i].mPrevious = i - 1
          /\ stack = << >> => m_Context = 0)
    /\ [][(RunStep /\ ~Invoked) => m_Context' = m_Context]_vars
    /\ [][Invoked => m_Context' = Len(stack') /\ stack'[m_Context'].mPrevious = m_Context]_vars
    /\ [][Returns => /\ ret'.op = "Run"
                     /\ m_Context' = stack[Len(stack)].mPrevious
                     /\ m_Context' = Len(stack')]_vars

\* the executer of a Run nested in an executer threw, so did the failure
\* callback, and the context of the outer Run is current again
C22_Witness ==
    /\ ret.op = "Run" /\ ret.exec.kind = "sqrat" /\ ret.cb = "sqrat"
    /\ Len(stack) = 1 /\ m_Context = 1 /\ ret.ctx.mPrevious = 1

\* C23: a command detached while its executer runs is no longer found, and
\* the dispatch completes against it: the result, the failure callback and
\* the post callback are those of the listener as bound, the previous
\* context is current again, and the listener is not destroyed as long as
\* the context of a Run in progress refers to it.
C23_DetachedWhileExecuting ==
    /\ [](\A i \in DOMAIN stack : ~listeners[stack[i].mInstance].released)
    /\ [][(ret = None /\ ret'.op = "Detach") =>
             /\ FindByName(m_Commands', ret'.name) = 0
             /\ stack' = stack /\ m_Context' = m_Context]_vars
    /\ [][(Returns /\ ~Attached(m_Commands, stack[Len(stack)].mInstance)) =>
             LET ctx == stack[Len(stack)]
                 l == listeners[ctx.mInstance]
                 threw == ret'.exec.kind \in { "sqrat", "std" }
                 zero == ret'.exec.kind = "null" \/ (ret'.exec.kind = "value" /\ ret'.exec.value = 0)
             IN  /\ ~l.released /\ listeners' = listeners
                 /\ ret'.result = (IF threw THEN -1 ELSE IF zero THEN 0 ELSE ret'.exec.value)
                 /\ (CallsTo(ret'.ctx, "fail") # {}) <=> ((threw \/ zero) /\ l.m_OnFail)
                 /\ (CallsTo(ret'.ctx, "post") # {}) <=> (~threw /\ ~zero /\ l.m_OnPost)
                 /\ m_Context' = ctx.mPrevious
                 /\ FindByName(m_Commands', ctx.mCommand) = 0]_vars

\* the command was detached and let go of by its executer; the dispatch
\* called its post callback and returned the executer's result
C23_Witness ==
    /\ ret.op = "Run" /\ ret.result = 1 /\ stack = << >>
    /\ ret.ctx.mInstance # 0
    /\ ~Attached(m_Commands, ret.ctx.mInstance)
    /\ listeners[ret.ctx.mInstance].handles = 0
    /\ ~listeners[ret.ctx.mInstance].released
    /\ CallsTo(ret.ctx, "post") # {}


(***************************************************************************)
(* The reports of one Run call, counted.                                   *)
(***************************************************************************)
PrimaryReports == { CMDERR_EXECUTION_FAILED, CMDERR_EXECUTION_ABORTED }
CallbackReports == { CMDERR_UNRESOLVED_FAILURE, CMDERR_POST_PROCESSING_FAILED }
ReportsOf(ctx, types) == { i \in DOMAIN ctx.errors : ctx.errors[i].type \in types }

\* C24: a Run that fails before the executer is called (name extraction,
\* lookup, authority check, argument parsing or validation) emits exactly
\* one error report; a Run that called the executer emits at most one
\* primary report (ExecutionFailed or ExecutionAborted) and at most one
\* report caused by the failure or post callback, and nothing else; a Run
\* whose executer returned nonzero and whose post callback did not throw
\* emits none.
C24_ReportCounts ==
    ret.op = "Run" =>
        /\ ret.exec = NoOutcome => Len(ret.ctx.errors) = 1
        /\ ret.exec # NoOutcome =>
              /\ Cardinality(ReportsOf(ret.ctx, PrimaryReports)) <= 1
              /\ Cardinality(ReportsOf(ret.ctx, CallbackReports)) <= 1
              /\ Len(ret.ctx.errors) = Cardinality(ReportsOf(ret.ctx, PrimaryReports \cup CallbackReports))
        /\ (ret.exec.kind = "value" /\ ret.exec.value # 0 /\ ret.cb \in { "none", "ok" }) =>
              ret.ctx.errors = << >>

\* the executer threw and so did the failure callback: two reports
C24_Witness ==
    /\ ret.op = "Run"
    /\ ret.exec.kind = "sqrat"
    /\ ret.cb = "sqrat"
    /\ Len(ret.ctx.errors) = 2
    /\ HasError(ret.ctx, CMDERR_EXECUTION_FAILED)
    /\ HasError(ret.ctx, CMDERR_UNRESOLVED_FAILURE)


\* the name is one of the registry's
Registers(cmds, name) == \E i \in DOMAIN cmds : cmds[i].mName = name

\* C25: a Run whose command name is valid but is not in the registry (never
\* registered, or registered and detached since) reports UnknownCommand,
\* returns -1, asks no authority inspector and calls no handler.
C25_UnknownCommand ==
    [][ (RunStep /\ ValidateName(NewCtx.mCommand) /\ ~Registers(m_Commands, NewCtx.mCommand)) =>
            /\ ~Invoked
            /\ ret'.result = -1
            /\ OnlyError(ret'.ctx, CMDERR_UNKNOWN_COMMAND, 0)
            /\ ret'.ctx.auth = "none"
            /\ ret'.ctx.calls = << >> ]_vars


\* Exec reached the type check: the text was parsed and the count is in range
Validated(ctx, l) ==
    ctx.mInstance # 0 /\ ctx.parsed /\ ~IncompleteArgs(l, ctx.mArgc) /\ ~ExtraneousArgs(l, ctx.mArgc)

\* the positions whose argument has a tag its flags do not accept
Offending(ctx, l) ==
    { k \in 0..(ctx.mArgc - 1) : ~Compatible(l.m_ArgSpec[k], ctx.mArgv[k + 1].first) }

\* every word is a whole integer standing at a position that accepts integers
IntegersAtIntegerPositions(ctx, l) ==
    /\ QuoteFree(ctx.mArgument)
    /\ Len(WordsOf(ctx.mArgument)) = ctx.mArgc
    /\ \A k \in 0..(ctx.mArgc - 1) :
          /\ WholeInteger(WordsOf(ctx.mArgument)[k + 1])
          /\ Has(l.m_ArgSpec[k], CMDARG_INTEGER)
          /\ ~Has(l.m_ArgSpec[k], CMDARG_GREEDY)

\* C26: the type check reports UnsupportedArg, naming the first offending
\* position, exactly when the argument of some position has a tag that the
\* position's flags do not accept (accepted: flags `any', flags that contain
\* the tag, or a string at a greedy position); the argument of a position is
\* the one parsed from its token, so integers at positions that accept
\* integers are never rejected.
C26_UnsupportedArg ==
    [][ (RunStep /\ NewCtx.mInstance # 0) =>
            LET ctx == NewCtx
                l == listeners[ctx.mInstance]
            IN  /\ HasError(ctx, CMDERR_UNSUPPORTED_ARG) <=>
                      (Validated(ctx, l) /\ Offending(ctx, l) # {})
                /\ HasError(ctx, CMDERR_UNSUPPORTED_ARG) =>
                      /\ \E p \in Offending(ctx, l) :
                            /\ \A q \in Offending(ctx, l) : p <= q
                            /\ OnlyError(ctx, CMDERR_UNSUPPORTED_ARG, p)
                      /\ ~Invoked /\ ret'.result = -1
                /\ (Validated(ctx, l) /\ IntegersAtIntegerPositions(ctx, l)) =>
                      ~HasError(ctx, CMDERR_UNSUPPORTED_ARG) ]_vars


\* the calls of a callback made with the invoker and a given result
CallsWith(ctx, cb, result) ==
    { i \in DOMAIN ctx.calls :
        ctx.calls[i] = [ cb |-> cb, invoker |-> ctx.mInvoker, result |-> result, args |-> << >> ] }

\* C27: when the executer throws, the exception is caught: ExecutionFailed
\* is reported once with the captured message, the failure callback, if
\* bound, is called once with the invoker and the result (-1), the post
\* callback is not called, and Run returns -1.
C27_HandlerThrows ==
    [][ (Returns /\ ret'.exec.kind \in { "sqrat", "std" }) =>
            LET l == listeners[stack[Len(stack)].mInstance]
                ctx == ret'.ctx
            IN  /\ ~ret'.threw
                /\ ctx.errors # << >>
                /\ ctx.errors[1] = [ type |-> CMDERR_EXECUTION_FAILED, data |-> Captured(ret'.exec) ]
                /\ Cardinality(ReportsOf(ctx, PrimaryReports)) = 1
                /\ CallsTo(ctx, "fail") = CallsWith(ctx, "fail", -1)
                /\ Cardinality(CallsTo(ctx, "fail")) = (IF l.m_OnFail THEN 1 ELSE 0)
                /\ CallsTo(ctx, "post") = {}
                /\ ret'.result = -1 ]_vars

\* the executer threw a script exception with both callbacks bound: the
\* failure callback was called with -1, the post callback was not
C27_Witness ==
    /\ ret.op = "Run"
    /\ ret.exec.kind = "sqrat"
    /\ listeners[ret.ctx.mInstance].m_OnPost
    /\ ret.cb = "ok"
    /\ CallsWith(ret.ctx, "fail", -1) # {}
    /\ OnlyError(ret.ctx, CMDERR_EXECUTION_FAILED, << "Message" >>)
    /\ ret.result = -1


\* C28: after the executer returned a value, the post callback is called
\* (once, with the invoker and that value) if and only if it is bound and
\* the value is not zero, negative values included; in that case the failure
\* callback is not called, no abort is reported and Run returns the value.
C28_PostExecute ==
    [][ (Returns /\ ret'.exec.kind = "value") =>
            LET l == listeners[stack[Len(stack)].mInstance]
                ctx == ret'.ctx
                result == ret'.exec.value
            IN  /\ (CallsTo(ctx, "post") # {}) <=> (l.m_OnPost /\ result # 0)
                /\ CallsTo(ctx, "post") = CallsWith(ctx, "post", result)
                /\ Cardinality(CallsTo(ctx, "post")) <= 1
                /\ CallsTo(ctx, "post") # {} =>
                      /\ CallsTo(ctx, "fail") = {}
                      /\ ReportsOf(ctx, PrimaryReports) = {}
                      /\ ret'.result = result ]_vars

\* the executer returned -1 with both callbacks bound: the post callback
\* was called with -1 and Run returned -1 without a report
C28_Witness ==
    /\ ret.op = "Run"
    /\ ret.exec = [ kind |-> "value", value |-> -1 ]
    /\ listeners[ret.ctx.mInstance].m_OnFail
    /\ CallsWith(ret.ctx, "post", -1) # {}
    /\ ret.ctx.errors = << >>
    /\ ret.result = -1


\* C29: when the executer returns zero, or its evaluation yields no value,
\* Run reports ExecutionAborted (with the zero result) once, calls the
\* failure callback, if bound, once with the invoker and 0, does not call
\* the post callback, and returns 0.
C29_Aborted ==
    [][ (Returns /\ ret'.exec \in { [ kind |-> "value", value |-> 0 ], [ kind |-> "null", value |-> 0 ] }) =>
            LET l == listeners[stack[Len(stack)].mInstance]
                ctx == ret'.ctx
            IN  /\ ctx.errors # << >>
                /\ ctx.errors[1] = [ type |-> CMDERR_EXECUTION_ABORTED, data |-> 0 ]
                /\ Cardinality(ReportsOf(ctx, PrimaryReports)) = 1
                /\ CallsTo(ctx, "fail") = CallsWith(ctx, "fail", 0)
                /\ Cardinality(CallsTo(ctx, "fail")) = (IF l.m_OnFail THEN 1 ELSE 0)
                /\ CallsTo(ctx, "post") = {}
                /\ ret'.result = 0 ]_vars

\* the executer yielded no value with both callbacks bound: the failure
\* callback was called with 0 and Run returned 0
C29_Witness ==
    /\ ret.op = "Run"
    /\ ret.exec.kind = "null"
    /\ listeners[ret.ctx.mInstance].m_OnPost
    /\ CallsWith(ret.ctx, "fail", 0) # {}
    /\ OnlyError(ret.ctx, CMDERR_EXECUTION_ABORTED, 0)
    /\ ret.result = 0


\* what Run returns for an executer's outcome when no callback interferes
Decided(outcome) ==
    IF outcome.kind \in { "sqrat", "std" } THEN -1
    ELSE IF outcome.kind = "value" THEN outcome.value
    ELSE 0

\* C30: an exception of the failure or post callback is caught where the
\* callback is called and reported once (UnresolvedFailure for the failure
\* callback, PostProcessingFailed for the post callback) after any primary
\* report; Run does not throw and returns what it would have returned: -1
\* after an executer's exception, 0 after an abort, the executer's nonzero
\* result after a success.
C30_CallbackThrows ==
    [][ (Returns /\ ret'.cb \in { "sqrat", "std" }) =>
            LET ctx == ret'.ctx
                mine == IF CallsTo(ctx, "fail") # {} THEN CMDERR_UNRESOLVED_FAILURE
                        ELSE CMDERR_POST_PROCESSING_FAILED
            IN  /\ ~ret'.threw
                /\ Cardinality(CallsTo(ctx, "fail") \cup CallsTo(ctx, "post")) = 1
                /\ CallsTo(ctx, "fail") # {} <=>
                      (ret'.exec.kind # "value" \/ ret'.exec.value = 0)
                /\ ctx.errors # << >>
                /\ ctx.errors[Len(ctx.errors)].type = mine
                /\ ReportsOf(ctx, CallbackReports) = { Len(ctx.errors) }
                /\ ret'.result = Decided(ret'.exec) ]_vars

\* the executer returned 2 and the post callback threw: PostProcessingFailed
\* is the only report and Run returned 2
C30_Witness ==
    /\ ret.op = "Run"
    /\ ret.exec = [ kind |-> "value", value |-> 2 ]
    /\ ret.cb = "sqrat"
    /\ OnlyError(ret.ctx, CMDERR_POST_PROCESSING_FAILED, 0)
    /\ ret.result = 2


(***************************************************************************)
(* Properties of the sort, the suspension flag and the argument container. *)
(***************************************************************************)
\* a step in which the script sorts the registry
Sorts == ret = None /\ ret'.op = "Sort"

\* C31: after Sort the registry's entries are in descending order of name
\* (of two adjacent entries the first has the greater name), and Sort only
\* permutes: the set of entries, their number and the result of FindByName
\* for every name are what they were.
C31_SortDescending ==
    [][ Sorts =>
            /\ \A i \in 1..(Len(m_Commands') - 1) :
                  StrLess(m_Commands'[i + 1].mName, m_Commands'[i].mName)
            /\ Range(m_Commands') = Range(m_Commands)
            /\ Len(m_Commands') = Len(m_Commands)
            /\ \A name \in LookupNames :
                  FindByName(m_Commands', name) = FindByName(m_Commands, name) ]_vars

\* the registry held "ab" before "d" and the sort put "d" first
C31_Witness ==
    /\ ret.op = "Sort"
    /\ Len(m_Commands) = 2
    /\ m_Commands[1].mName = N_d
    /\ m_Commands[2].mName = N_ab
    /\ m_Commands[2].mPtr = 1


\* the command that differs from l in the suspension flag only
Twin(l) == [ l EXCEPT !.m_Suspended = ~l.m_Suspended ]

\* the context Run hands to Exec, recovered from the one Exec left
Entered(ctx) ==
    [ Context(ctx.mInvoker, ctx.command) EXCEPT
        !.mCommand = ctx.mCommand, !.mArgument = ctx.mArgument,
        !.mInstance = ctx.mInstance, !.mPrevious = ctx.mPrevious, !.guarded = TRUE ]

\* what Run leaves of the context when Exec ended as ex
LeftBy(ex) ==
    IF ex.threw THEN Report(ex.ctx, CMDERR_EXECUTION_FAILED, ex.ctx.mInvoker) ELSE ex.ctx

\* C32: the suspension flag is not enforced: the command that differs only
\* in that flag passes or fails the same gates for the same invoker and
\* text, with the same reports, the same calls of the executer and of the
\* callbacks, and the same result.
C32_SuspendedNotEnforced ==
    [][ /\ (RunStep /\ NewCtx.mInstance # 0) =>
              LET twin == Exec(Twin(listeners[NewCtx.mInstance]), m_OnAuth,
                               Entered(NewCtx), NewCtx.auth)
              IN  /\ twin.invoke <=> Invoked
                  /\ LeftBy(twin) = NewCtx
        /\ Returns =>
              LET ctx == stack[Len(stack)]
                  twin == ExecEnd(Twin(listeners[ctx.mInstance]), ctx, ret'.exec, ret'.cb)
              IN  /\ twin.ctx = ret'.ctx
                  /\ twin.result = ret'.result ]_vars

\* a suspended command was run: its executer and its post callback were called
C32_Witness ==
    /\ ret.op = "Run"
    /\ ret.exec = [ kind |-> "value", value |-> 1 ]
    /\ listeners[ret.ctx.mInstance].m_Suspended
    /\ CallsTo(ret.ctx, "exec") # {}
    /\ CallsTo(ret.ctx, "post") # {}
    /\ ret.result = 1


\* the container the executer of a context was called with
Delivered(ctx) == ctx.calls[CHOOSE i \in DOMAIN ctx.calls : ctx.calls[i].cb = "exec"].args

\* the key of a position in the table: its tag, its index when it has none
KeyOf(l, k) ==
    IF l.m_ArgTags[k] # << >> THEN [ idx |-> -1, tag |-> l.m_ArgTags[k] ]
    ELSE [ idx |-> k, tag |-> << >> ]

\* the container is built from the first mArgc stored pairs
BuiltFromPairs(ctx, l) ==
    LET args == Delivered(ctx)
    IN  IF ~l.m_Associate
        THEN /\ Len(args) = ctx.mArgc
             /\ \A k \in 0..(ctx.mArgc - 1) :
                   args[k + 1] = [ key |-> [ idx |-> k, tag |-> << >> ],
                                   val |-> ctx.mArgv[k + 1].second ]
        ELSE /\ \A k \in 0..(ctx.mArgc - 1) :
                   (\A j \in (k + 1)..(ctx.mArgc - 1) : KeyOf(l, j) # KeyOf(l, k)) =>
                       \E i \in DOMAIN args :
                           args[i] = [ key |-> KeyOf(l, k), val |-> ctx.mArgv[k + 1].second ]
             /\ \A i \in DOMAIN args : \E k \in 0..(ctx.mArgc - 1) : args[i].key = KeyOf(l, k)
             /\ (\A j, k \in 0..(ctx.mArgc - 1) : j # k => KeyOf(l, j) # KeyOf(l, k)) =>
                   Len(args) = ctx.mArgc

\* the k-th stored pair is one made from the k-th word of a quote-free text
PairsFollowWords(ctx, l) ==
    LET words == WordsOf(ctx.mArgument)
    IN  (QuoteFree(ctx.mArgument)
         /\ \A k \in 0..(ctx.mArgc - 1) : ~Has(l.m_ArgSpec[k], CMDARG_GREEDY)) =>
            /\ Len(words) = ctx.mArgc
            /\ \A k \in 1..ctx.mArgc : ctx.mArgv[k] \in PairsOf(words[k])

\* C33: the executer receives, when the command is not associative, a list
\* whose k-th element is the k-th parsed value; when it is, a table in which
\* the k-th parsed value is stored under the position's tag if it has one
\* and under the index k otherwise, so that distinct tags give one entry per
\* parsed argument.  The k-th parsed value is the one parsed from the k-th
\* argument of the text.
C33_ArgumentDelivery ==
    [][ Invoked =>
            LET ctx == stack'[Len(stack')]
                l == listeners[ctx.mInstance]
            IN  BuiltFromPairs(ctx, l) /\ PairsFollowWords(ctx, l) ]_vars


(***************************************************************************)
(* Properties of the order of the gates.                                   *)
(***************************************************************************)
\* the argument text opens with a quote that is never closed
StartsUnclosed(text) ==
    text # << >> /\ text[1] \in { SQ, DQ } /\ QuoteFree(Tail(text))

\* the first position whose argument has a tag its flags do not accept
FirstOffending(ctx, l) ==
    CHOOSE p \in Offending(ctx, l) : \A q \in Offending(ctx, l) : p <= q

\* C34: the gates of a dispatch are passed in a fixed order: authority,
\* executer bound, parsing, minimum count, maximum count, type check; the
\* only error reported is that of the first gate that fails (a denied
\* invoker gets InsufficientAuth whatever else is wrong; too few arguments
\* of the wrong type get IncompleteArgs).
C34_GateOrder ==
    [][ (RunStep /\ NewCtx.mInstance # 0 /\ NewCtx.auth \in { "none", "true", "false" }) =>
            LET ctx == NewCtx
                l == listeners[ctx.mInstance]
            IN  IF ~Allowed(ctx, l, m_OnAuth)
                THEN OnlyError(ctx, CMDERR_INSUFFICIENT_AUTH, ctx.mInvoker)
                ELSE IF ~l.m_OnExec
                THEN OnlyError(ctx, CMDERR_MISSING_EXECUTER, ctx.mInvoker)
                ELSE IF ~ctx.parsed
                THEN /\ Len(ctx.errors) = 1
                     /\ ctx.errors[1].type \in { CMDERR_SYNTAX_ERROR, CMDERR_BUFFER_OVERFLOW }
                ELSE IF ctx.mArgc < l.m_MinArgc
                THEN OnlyError(ctx, CMDERR_INCOMPLETE_ARGS, l.m_MinArgc)
                ELSE IF ctx.mArgc > l.m_MaxArgc
                THEN OnlyError(ctx, CMDERR_EXTRANEOUS_ARGS, l.m_MaxArgc)
                ELSE IF Offending(ctx, l) # {}
                THEN OnlyError(ctx, CMDERR_UNSUPPORTED_ARG, FirstOffending(ctx, l))
                ELSE Invoked /\ ctx.errors = << >> ]_vars

\* a denied invoker, no executer bound and an unclosed quote: InsufficientAuth
C34_Witness ==
    /\ ret.op = "Run"
    /\ StartsUnclosed(ret.ctx.mArgument)
    /\ ret.ctx.mInstance # 0
    /\ ~listeners[ret.ctx.mInstance].m_OnExec
    /\ OnlyError(ret.ctx, CMDERR_INSUFFICIENT_AUTH, ret.ctx.mInvoker)

\* C35: the failure callback is called only after the executer was called
\* and returned zero, yielded no value or threw, the post callback only
\* after the executer was called; a Run that fails before it calls the
\* executer calls neither.
C35_CallbacksAfterExecuter ==
    /\ \A i \in DOMAIN stack : CallsTo(stack[i], "fail") \cup CallsTo(stack[i], "post") = {}
    /\ ret.op = "Run" =>
          /\ \A i \in CallsTo(ret.ctx, "fail") \cup CallsTo(ret.ctx, "post") :
                \E j \in CallsTo(ret.ctx, "exec") : j < i
          /\ CallsTo(ret.ctx, "fail") # {} =>
                (ret.exec.kind \in { "null", "sqrat", "std" }
                 \/ ret.exec = [ kind |-> "value", value |-> 0 ])
          /\ ret.exec = NoOutcome => ret.ctx.calls = << >>

\* both callbacks are bound and the Run failed at the count gate: no call
C35_Witness ==
    /\ ret.op = "Run"
    /\ HasError(ret.ctx, CMDERR_INCOMPLETE_ARGS)
    /\ listeners[ret.ctx.mInstance].m_OnFail
    /\ listeners[ret.ctx.mInstance].m_OnPost
    /\ ret.ctx.calls = << >>
    /\ ret.result = -1

(***************************************************************************)
(* Properties of the bounds of the position array.                         *)
(***************************************************************************)
\* the contexts whose argument text the tokenizer went into
TokenizedContexts ==
    { c \in { stack[i] : i \in DOMAIN stack }
            \cup (IF ret.op = "Run" THEN { ret.ctx } ELSE {}) : c.read >= 0 }

\* C36: while an argument text is tokenized the argument count never
\* exceeds the command's maxArgs, and every read of the position flags,
\* the one for the position after the last argument included (the last
\* read is at the argument count), has an index below SQMOD_MAX_CMD_ARGS.
C36_ParseWithinBounds ==
    \A c \in TokenizedContexts :
        /\ c.mArgc <= listeners[c.mInstance].m_MaxArgc
        /\ c.read = c.mArgc
        /\ c.read < SQMOD_MAX_CMD_ARGS

\* more words than the greatest maxArgs: the last read is at the last index
C36_Witness ==
    /\ stack # << >>
    /\ stack[1].mArgument = Sevens(SQMOD_MAX_CMD_ARGS)
    /\ stack[1].mArgc = SQMOD_MAX_CMD_ARGS - 1
    /\ stack[1].read = SQMOD_MAX_CMD_ARGS - 1

(***************************************************************************)
(* C37: the specification compiler never writes a flag to a position at or *)
(* beyond SQMOD_MAX_CMD_ARGS: no SetSpec call writes behind position       *)
(* SQMOD_MAX_CMD_ARGS - 1, and a string that names such a position is      *)
(* rejected with an error.                                                 *)
(***************************************************************************)
\* the string has a letter code behind SQMOD_MAX_CMD_ARGS or more separators
BeyondLastPosition(spec) ==
    \E i \in DOMAIN spec :
        /\ spec[i] \in SpecLetters
        /\ Cardinality({ j \in 1 .. (i - 1) : spec[j] = "|" }) >= SQMOD_MAX_CMD_ARGS

C37_NoOutOfRangeWrite ==
    ret.op = "SetSpec" =>
        /\ ret.wrote < SQMOD_MAX_CMD_ARGS
        /\ (BeyondLastPosition(ret.spec) => ret.threw)

(***************************************************************************)
(* C38: renaming an attached command is atomic with respect to failure.    *)
(* When SetName fails because another command is registered under the new  *)
(* name, the command is still attached under its old name and FindByName   *)
(* of the old name returns it; when it succeeds, the command is found      *)
(* under the new name only and the number of commands is unchanged.        *)
(***************************************************************************)
\* another listener than ptr is registered under name
RegisteredByAnother(cmds, name, ptr) ==
    \E i \in DOMAIN cmds : cmds[i].mName = name /\ cmds[i].mPtr # ptr

C38_RenameAtomic ==
    [][ \A ptr \in DOMAIN listeners, name \in RenameNames :
           SetName(ptr, name) /\ Attached(m_Commands, ptr) =>
               /\ ret'.threw /\ RegisteredByAnother(m_Commands, name, ptr) =>
                     /\ Attached(m_Commands', ptr)
                     /\ listeners'[ptr].m_Name = listeners[ptr].m_Name
                     /\ FindByName(m_Commands', listeners[ptr].m_Name) = ptr
               /\ ~ret'.threw =>
                     /\ FindByName(m_Commands', name) = ptr
                     /\ name # listeners[ptr].m_Name =>
                            FindByName(m_Commands', listeners[ptr].m_Name) # ptr
                     /\ Len(m_Commands') = Len(m_Commands) ]_vars

(***************************************************************************)
(* C39: after any sequence of SetSpec calls, successful or failing, the    *)
(* per-position flags of a command are the compilation of the string that  *)
(* GetSpec returns.                                                        *)
(***************************************************************************)
GetSpec(l) == l.m_Spec

C39_FlagsOfStoredSpec ==
    \A ptr \in DOMAIN listeners :
        listeners[ptr].m_ArgSpec = ProcSpec(GetSpec(listeners[ptr])).spec

(***************************************************************************)
(* C40: the slot pool under re-entrant callbacks.  While the callback of a *)
(* routine is executing, FindUnused never returns the slot of that         *)
(* routine, even when the callback terminated it, and no routine created   *)
(* meanwhile takes it; the slot FindUnused returns holds no routine and is *)
(* not executing; FindUnused returns -1 when there is no such slot.        *)
(***************************************************************************)
\* the slots whose callback is being called
Executing == { stack[i].slot : i \in DOMAIN stack }
FreeSlots == { slot \in Slots : s_Instances[slot].mInst = 0 /\ ~s_Instances[slot].mExecuting }

C40_SlotPool ==
    /\ FindUnused(s_Instances) \notin Executing
    /\ (ret.op = "Create" /\ ~ret.threw => ret.slot \notin Executing)
    /\ (FindUnused(s_Instances) # -1 => FindUnused(s_Instances) \in FreeSlots)
    /\ (FreeSlots = {} <=> FindUnused(s_Instances) = -1)
    /\ (ret.op = "Create" /\ ret.threw => FreeSlots = {})

\* in its callback a routine was terminated, the other slot is taken, and a
\* routine the callback asked for was refused
C40_Witness ==
    /\ \E slot \in Executing : s_Instances[slot].mInst = 0 /\ s_Instances[slot].mExecuting
    /\ GetUsed(s_Instances) = SQMOD_MAX_ROUTINES - 1
    /\ ret.op = "Create" /\ ret.threw
    /\ FindUnused(s_Instances) = -1

=============================================================================
